---- MODULE Spec2Model ----
(***************************************************************************)
(* Model of the tradebothub-core worker.                                   *)
(*                                                                         *)
(*   Part I   HealthReporter (bot/health/reporter.py, bot/health/config.py)*)
(*            two threads: the background flush loop (maybe_flush) and the *)
(*            trading thread (record_* / flush_now).  One step per         *)
(*            critical section of the reporter mutex; the RPC runs between *)
(*            two critical sections, outside the lock.                     *)
(*   Part II  send_order (bot/trading/orders.py)                           *)
(*   Part III Position manager (bot/trading/position.py)                   *)
(*                                                                         *)
(* Times are whole seconds of time.monotonic().  Wall-clock ISO strings    *)
(* written into the patch are abstracted to the constant "ts".             *)
(***************************************************************************)
EXTENDS Integers, Sequences, FiniteSets, TLC

VARIABLES
    \* ---- HealthReporter -------------------------------------------------
    now,                 \* time.monotonic()
    tier,                \* HealthReporter._tier
    rep_in_position,     \* HealthReporter._in_position
    pending_patch,       \* HealthReporter._pending_patch (dict)
    last_flush_ts,       \* HealthReporter._last_flush_ts
    scheduled_flush_ts,  \* HealthReporter._scheduled_flush_ts (0 = none)
    scheduled_reason,    \* HealthReporter._scheduled_reason
    pc,                  \* per thread: position inside maybe_flush / flush_now
    tok,                 \* per thread: the claimed (reason, patch) token
    \* ---- observation of the reporter (history) ---------------------------
    h_succ,              \* time of the latest successful flush, -1 if none
    h_owed,              \* keys pending at a failed flush, not yet delivered
    h_decl,              \* declined flush_now calls behind the current schedule
    \* ---- send_order applied to drawn inputs ------------------------------
    o_in,                \* <<arguments and exchange answers>> of one call
    o_res,               \* <<what send_order did>>, <<>> before the call
    \* ---- position manager ------------------------------------------------
    ctx,                 \* BotContext: dry_run and the config bundles
    POSITION_STATE,      \* bot.trading.position.STATE (PositionState)
    exch_positions,      \* positions open at the exchange for this worker
    last_op,             \* the handler the latest tick called
    h_try,               \* what the latest try_open_position call did
    h_manage,            \* what the latest manage_open_position call did
    \* ---- run_loop --------------------------------------------------------
    loop_state,          \* run_loop's `state` (BotState)
    loop_pc,             \* "top" between ticks, "dispatch" inside one
    consec_errors,       \* run_loop's `consec_errors`
    control_refresh_polls, \* run_loop's `control_refresh_polls`
    refresh_age,         \* sleeps taken since last_control_refresh was set
    controls,            \* ctx.subscription_status and ctx.control_config
    alias_rebound,       \* position.STATE no longer the object loop.py imported
    loop_exit,           \* how run_loop ended, "running" while it has not
    h_tick,              \* what the latest tick did
    h_run,               \* events and signals of the whole run
    \* ---- JitterScheduler -------------------------------------------------
    sch,                 \* the scheduler's min_seconds, base and jitter
    clock,               \* time.monotonic() as the loop's scheduler sees it
    h_sched,             \* what the latest next_interval / sleep_for did
    \* ---- HealthWindow ----------------------------------------------------
    win_buckets,         \* HealthWindow._buckets: per key a deque of times
    win_log,             \* per key every timestamp inc recorded, in call order
    h_win,               \* what the latest HealthWindow call did
    \* ---- atr_exit_reason applied to drawn inputs -------------------------
    x_in,                \* <<state, price, atr, cfg>> of one call
    x_res,               \* <<reason and state after>>, <<>> before the call
    \* ---- a held position followed over manage ticks ----------------------
    h_trail,             \* favourable extreme, activation and latest reason
    y_res,               \* <<arguments and result>> of a maybe_pyramid call
    \* ---- ExchangeSyncService._run_sync applied to drawn inputs -----------
    k_in,                \* <<the local row, the exchange's and database's answers>>
    k_res,               \* <<what the run did>>, <<>> before the run
    \* ---- normalize_configs applied to drawn inputs -----------------------
    n_in,                \* <<the raw config values>> of one call
    n_res,               \* <<the bundles returned>>, <<>> before the call
    \* ---- bootstrap.start ------------------------------------------------
    b_ctx,               \* subscription status and control switches loaded
    boot,                \* position in start(), steps done, how it ended
    \* ---- the control refresh of run_loop against the clock --------------
    rf,                  \* timer, tick counter, controls, how the run stands
    h_rf,                \* what the latest tick did about the refresh
    \* ---- ExchangeSyncService.maybe_sync against the clock ---------------
    sy,                  \* the service's interval and _next_sync_at, the clock
    h_sy,                \* runs started so far and the gap between the last two
    \* ---- map_exception_to_reason applied to drawn inputs ----------------
    m_in,                \* <<the exception or message>> of one call
    m_res,               \* <<the reason code returned>>, <<>> before the call
    \* ---- exchange sync and position management in one loop tick --------
    db_row,              \* bot_positions holds an open row for this bot
    h_close,             \* what sync closed and what the tick's handler then did
    \* ---- the orders accepted for the current position -------------------
    h_net                \* net quantity of the orders send_order returned

rvars == <<now, tier, rep_in_position, pending_patch, last_flush_ts,
           scheduled_flush_ts, scheduled_reason, pc, tok,
           h_succ, h_owed, h_decl>>

ovars == <<o_in, o_res>>

pvars == <<ctx, POSITION_STATE, exch_positions, last_op, h_try, h_manage>>

lvars == <<loop_state, loop_pc, consec_errors, control_refresh_polls,
           refresh_age, controls, alias_rebound, loop_exit, h_tick, h_run>>

svars == <<sch, clock, h_sched>>

wvars == <<win_buckets, win_log, h_win>>

\* the components added after the scheduler
xvars == <<x_in, x_res>>

tvars == <<h_trail, y_res>>

kvars == <<k_in, k_res>>

nvars == <<n_in, n_res>>

bvars == <<b_ctx, boot>>

\* bootstrap and the cadences of the loop's services
cvars == <<rf, h_rf>>

yvars == <<sy, h_sy>>

\* the components added after the cadences
mvars == <<m_in, m_res>>

dvars == <<db_row, h_close>>

qvars == <<h_net>>

zvars == <<mvars, dvars, qvars>>

gvars == <<bvars, cvars, yvars, zvars>>

\* exchange sync, config normalisation, bootstrap and cadences
fvars == <<kvars, nvars, gvars>>

evars == <<wvars, xvars, tvars, fvars>>

vars == <<rvars, ovars, pvars, lvars, svars, evars>>

None == "None"

Max(a, b) == IF a >= b THEN a ELSE b

Abs(a) == IF a >= 0 THEN a ELSE 0 - a

(***************************************************************************)
(* Bounds of the model.                                                    *)
(***************************************************************************)
\* seconds of time.monotonic() the model follows after construction
MaxElapsed == 8

\* time.monotonic() when the reporter is constructed (host uptime)
BootClock == 200

(***************************************************************************)
(* Part I.  HealthReporter                                                 *)
(***************************************************************************)
DEBOUNCE_SECONDS == 3

CRITICAL_DELAY_SECONDS == 1

DEFAULT_TIER == "standard"

FLUSH_INTERVALS_OUT_OF_POSITION ==
    [fast_5s |-> 60, ultra_15s |-> 90, fast_30s |-> 120, standard |-> 180]

FLUSH_INTERVALS_IN_POSITION ==
    [fast_5s |-> 20, ultra_15s |-> 45, fast_30s |-> 75, standard |-> 150]

\* tiers a reporter is built with: two table tiers and one unknown name
TierInputs == {"fast_5s", "turbo"}


Threads == {"flush_loop", "main"}

normalize_tier(t) ==
    IF t = None THEN DEFAULT_TIER
    ELSE IF t \in DOMAIN FLUSH_INTERVALS_OUT_OF_POSITION THEN t
    ELSE DEFAULT_TIER

get_flush_interval(t, inpos) ==
    LET normalized == normalize_tier(t)
        table == IF inpos THEN FLUSH_INTERVALS_IN_POSITION
                 ELSE FLUSH_INTERVALS_OUT_OF_POSITION
    IN  IF normalized \in DOMAIN table THEN table[normalized]
        ELSE table[DEFAULT_TIER]

EmptyPatch == [k \in {} |-> None]

\* dict.update
DictUpdate(d, f) ==
    [k \in (DOMAIN d) \cup (DOMAIN f) |-> IF k \in DOMAIN f THEN f[k] ELSE d[k]]

\* _build_patch_snapshot: a copy of pending_patch (the rolling-window
\* counters it adds are recomputed on every snapshot and never pending)
build_patch_snapshot == DictUpdate(EmptyPatch, pending_patch)

NoToken == [reason |-> None, patch |-> EmptyPatch]

\* _claim_flush, the critical section, with the clock read as pnow.
claim_flush_no_debounce(reason, force, pnow) ==
    LET interval == get_flush_interval(tier, rep_in_position)
        due      == pnow - last_flush_ts
        blocked  == scheduled_flush_ts # 0 /\ pnow < scheduled_flush_ts /\ ~force
        adopt    == scheduled_flush_ts # 0 /\ pnow >= scheduled_flush_ts
        rsn      == IF adopt /\ scheduled_reason # None THEN scheduled_reason ELSE reason
        ok       == IF force THEN TRUE ELSE due >= DEBOUNCE_SECONDS
    IN  IF blocked
        THEN [accepted |-> FALSE, reason |-> reason, patch |-> EmptyPatch,
              sched_ts |-> scheduled_flush_ts, sched_reason |-> scheduled_reason]
        ELSE [accepted |-> ok, reason |-> rsn,
              patch |-> IF ok THEN build_patch_snapshot ELSE EmptyPatch,
              sched_ts |-> IF adopt THEN 0 ELSE scheduled_flush_ts,
              sched_reason |-> IF adopt THEN None ELSE scheduled_reason]

\* a _claim_flush that reports the caller's reason whatever was scheduled
claim_flush_own_reason(reason, force, pnow) ==
    LET interval == get_flush_interval(tier, rep_in_position)
        due      == pnow - last_flush_ts
        blocked  == scheduled_flush_ts # 0 /\ pnow < scheduled_flush_ts /\ ~force
        adopt    == scheduled_flush_ts # 0 /\ pnow >= scheduled_flush_ts
        ok       == IF force THEN due >= DEBOUNCE_SECONDS
                    ELSE due >= Max(DEBOUNCE_SECONDS, interval)
    IN  IF blocked
        THEN [accepted |-> FALSE, reason |-> reason, patch |-> EmptyPatch,
              sched_ts |-> scheduled_flush_ts, sched_reason |-> scheduled_reason]
        ELSE [accepted |-> ok, reason |-> reason,
              patch |-> IF ok THEN build_patch_snapshot ELSE EmptyPatch,
              sched_ts |-> IF adopt THEN 0 ELSE scheduled_flush_ts,
              sched_reason |-> IF adopt THEN None ELSE scheduled_reason]

claim_flush(reason, force, pnow) ==
    LET interval == get_flush_interval(tier, rep_in_position)
        due      == pnow - last_flush_ts
        blocked  == scheduled_flush_ts # 0 /\ pnow < scheduled_flush_ts /\ ~force
        adopt    == scheduled_flush_ts # 0 /\ pnow >= scheduled_flush_ts
        rsn      == IF adopt /\ scheduled_reason # None THEN scheduled_reason ELSE reason
        ok       == IF force THEN due >= DEBOUNCE_SECONDS
                    ELSE due >= Max(DEBOUNCE_SECONDS, interval)
    IN  IF blocked
        THEN [accepted |-> FALSE, reason |-> reason, patch |-> EmptyPatch,
              sched_ts |-> scheduled_flush_ts, sched_reason |-> scheduled_reason]
        ELSE [accepted |-> ok, reason |-> rsn,
              patch |-> IF ok THEN build_patch_snapshot ELSE EmptyPatch,
              sched_ts |-> IF adopt THEN 0 ELSE scheduled_flush_ts,
              sched_reason |-> IF adopt THEN None ELSE scheduled_reason]

RInit ==
    /\ now = BootClock
    /\ tier \in TierInputs
    /\ rep_in_position = FALSE
    /\ pending_patch = EmptyPatch
    /\ last_flush_ts = 0
    /\ scheduled_flush_ts = 0
    /\ scheduled_reason = None
    /\ pc = [t \in Threads |-> "idle"]
    /\ tok = [t \in Threads |-> NoToken]
    /\ h_succ = -1
    /\ h_owed = {}
    /\ h_decl = [n |-> 0, last |-> None, taken_n |-> 0, own |-> None]

hist == <<h_succ, h_owed, h_decl>>

\* n: flush_now calls that scheduled since the schedule was last taken up
\* (counted up to 2), last: the reason of the latest of them; taken_n and
\* own: that count and the caller's own reason at the latest claim that took
\* a due schedule up
NoDeclined == [n |-> 0, last |-> None, taken_n |-> 0, own |-> None]

\* the history after a _claim_flush call made with the reason own
declined_after_claim(c, own) ==
    IF scheduled_flush_ts # 0 /\ c.sched_ts = 0
    THEN [n |-> 0, last |-> None, taken_n |-> h_decl.n, own |-> own]
    ELSE h_decl

\* the clock moves on; any thread may be anywhere meanwhile
Advance ==
    /\ now < BootClock + MaxElapsed
    /\ now' = now + 1
    /\ UNCHANGED <<tier, rep_in_position, pending_patch, last_flush_ts,
                   scheduled_flush_ts, scheduled_reason, pc, tok, hist, ovars, pvars, lvars, svars, evars>>

\* set_in_position, called by the trading thread
set_in_position(b) ==
    /\ pc["main"] = "idle"
    /\ rep_in_position # b
    /\ rep_in_position' = b
    /\ UNCHANGED <<now, tier, pending_patch, last_flush_ts,
                   scheduled_flush_ts, scheduled_reason, pc, tok, hist, ovars, pvars, lvars, svars, evars>>

\* _update_patch
update_patch(fields) == pending_patch' = DictUpdate(pending_patch, fields)

record_strategy_tick_ok ==
    /\ pc["main"] = "idle"
    /\ update_patch([strategy_ok |-> TRUE, last_strategy_tick_at |-> "ts"])
    /\ pending_patch' # pending_patch
    /\ UNCHANGED <<now, tier, rep_in_position, last_flush_ts,
                   scheduled_flush_ts, scheduled_reason, pc, tok, hist, ovars, pvars, lvars, svars, evars>>

\* record_db_error: patch the gauge, then flush_now("db_error")
record_db_error ==
    /\ pc["main"] = "idle"
    /\ update_patch([db_ok |-> FALSE])
    /\ pc' = [pc EXCEPT !["main"] = "flush_now"]
    /\ tok' = [tok EXCEPT !["main"] = [reason |-> "db_error", patch |-> EmptyPatch]]
    /\ UNCHANGED <<now, tier, rep_in_position, last_flush_ts,
                   scheduled_flush_ts, scheduled_reason, hist, ovars, pvars, lvars, svars, evars>>

\* the loop's own reporter.flush_now("loop_error")
flush_now_call ==
    /\ pc["main"] = "idle"
    /\ pc' = [pc EXCEPT !["main"] = "flush_now"]
    /\ tok' = [tok EXCEPT !["main"] = [reason |-> "loop_error", patch |-> EmptyPatch]]
    /\ UNCHANGED <<now, tier, rep_in_position, pending_patch, last_flush_ts,
                   scheduled_flush_ts, scheduled_reason, hist, ovars, pvars, lvars, svars, evars>>

\* flush_now, first critical section: _claim_flush(reason, force=True)
flush_now_claim ==
    /\ pc["main"] = "flush_now"
    /\ LET c == claim_flush(tok["main"].reason, TRUE, now)
       IN  /\ scheduled_flush_ts' = c.sched_ts
           /\ scheduled_reason' = c.sched_reason
           /\ pc' = [pc EXCEPT !["main"] = IF c.accepted THEN "rpc" ELSE "schedule"]
           /\ tok' = [tok EXCEPT !["main"] =
                        IF c.accepted THEN [reason |-> c.reason, patch |-> c.patch] ELSE @]
           /\ h_decl' = declined_after_claim(c, tok["main"].reason)
    /\ UNCHANGED <<now, tier, rep_in_position, pending_patch, last_flush_ts,
                   h_succ, h_owed, ovars, pvars, lvars, svars, evars>>

\* flush_now, second critical section after a declined claim: schedule
flush_now_schedule ==
    /\ pc["main"] = "schedule"
    /\ LET next_due == Max(last_flush_ts + DEBOUNCE_SECONDS, now + CRITICAL_DELAY_SECONDS)
       IN  scheduled_flush_ts' = Max(scheduled_flush_ts, next_due)
    /\ scheduled_reason' = tok["main"].reason
    /\ pc' = [pc EXCEPT !["main"] = "idle"]
    /\ h_decl' = [h_decl EXCEPT !.n = IF @ < 2 THEN @ + 1 ELSE 2, !.last = tok["main"].reason]
    /\ tok' = [tok EXCEPT !["main"] = NoToken]
    /\ UNCHANGED <<now, tier, rep_in_position, pending_patch, last_flush_ts,
                   h_succ, h_owed, ovars, pvars, lvars, svars, evars>>

\* maybe_flush on the flush-loop thread: _claim_flush("scheduled", force=False)
maybe_flush ==
    /\ pc["flush_loop"] = "idle"
    /\ LET c == claim_flush("scheduled", FALSE, now)
       IN  /\ scheduled_flush_ts' = c.sched_ts
           /\ scheduled_reason' = c.sched_reason
           /\ pc' = [pc EXCEPT !["flush_loop"] = IF c.accepted THEN "rpc" ELSE "idle"]
           /\ tok' = [tok EXCEPT !["flush_loop"] =
                        IF c.accepted THEN [reason |-> c.reason, patch |-> c.patch] ELSE @]
           /\ h_decl' = declined_after_claim(c, "scheduled")
    /\ UNCHANGED <<now, tier, rep_in_position, pending_patch, last_flush_ts,
                   h_succ, h_owed, ovars, pvars, lvars, svars, evars>>

\* _execute_flush: the RPC (outside the lock) returned `success`, then the
\* critical section that clears the patch
execute_flush(t, success) ==
    /\ pc[t] = "rpc"
    /\ IF success
       THEN /\ pending_patch' = EmptyPatch
            /\ last_flush_ts' = now
            /\ h_succ' = now
            /\ h_owed' = {}
       ELSE /\ pending_patch' = pending_patch
            /\ last_flush_ts' = last_flush_ts
            /\ h_succ' = h_succ
            /\ h_owed' = h_owed \cup DOMAIN pending_patch
    /\ pc' = [pc EXCEPT ![t] = "idle"]
    /\ tok' = [tok EXCEPT ![t] = NoToken]
    /\ UNCHANGED <<now, tier, rep_in_position, scheduled_flush_ts, scheduled_reason,
                   h_decl, ovars, pvars, lvars, svars, evars>>

RNext ==
    \/ Advance
    \/ \E b \in BOOLEAN : set_in_position(b)
    \/ record_strategy_tick_ok
    \/ record_db_error
    \/ flush_now_call
    \/ flush_now_claim
    \/ flush_now_schedule
    \/ maybe_flush
    \/ \E t \in Threads, success \in BOOLEAN : execute_flush(t, success)

(***************************************************************************)
(* Part II.  send_order                                                    *)
(*                                                                         *)
(* Prices are whole ticks, a missing ticker field (None) is 0, which the   *)
(* code's `or` chain treats alike.  Quantities are in units of 1/QtyScale. *)
(***************************************************************************)
\* expected prices handed to send_order (0: a non-positive expectation)
ExpectedPrices == {0, 100, 102}

\* answers of exchange.fetch_ticker; ok = FALSE is a call that raises
TickerInputs ==
    {[ok |-> TRUE, last |-> l, close |-> c] :
        l \in {0, 100, 101, 108}, c \in {0, 102}}
        \cup {[ok |-> FALSE, last |-> 0, close |-> 0]}

\* max_slippage_bps as passed by the callers, always int(...) of the
\* execution config (position.py 123, 179, 292), so never None
SlippageInputs == {0, 20, 100}

\* exchange.create_order: an order dict, an empty answer, or an exception
CreateInputs == {"order", "empty", "raise"}

\* order quantities tried in isolation (1/QtyScale units)
QtyInputs == {0, 4901}

\* ceil(x / y) for x >= 0, y > 0
CeilDiv(x, y) == (x + y - 1) \div y

\* _bps_diff(a, b) = abs(a - b) / b * 10000 (0.0 when b <= 0), rounded up to
\* whole basis points: for an integer m, slip > m iff ceil(slip) > m.
bps_diff_signed(a, b) ==
    IF b <= 0 THEN 0
    ELSE IF a >= b THEN CeilDiv((a - b) * 10000, b)
    ELSE 0 - ((b - a) * 10000) \div b

bps_diff(a, b) ==
    IF b <= 0 THEN 0
    ELSE CeilDiv(Abs(a - b) * 10000, b)

\* live = float(ticker.get("last") or ticker.get("close") or expected_price)
live_price(ticker, expected_price) ==
    IF ticker.last # 0 THEN ticker.last
    ELSE IF ticker.close # 0 THEN ticker.close
    ELSE expected_price

\* An exception text, lower-cased, as its sequence of words; "_" is a word of
\* its own and "#" stands for a formatted number.  `pattern in text` is then
\* the search for a contiguous run of words.
text_contains(text, pattern) ==
    \E k \in 1..(Len(text) + 1 - Len(pattern)) :
        SubSeq(text, k, k + Len(pattern) - 1) = pattern

\* _REASON_PATTERNS, in list order
REASON_PATTERNS ==
    << <<<<"invalid", "api">>, "INVALID_API_KEY">>,
       <<<<"invalid", "key">>, "INVALID_API_KEY">>,
       <<<<"insufficient", "balance">>, "INSUFFICIENT_BALANCE">>,
       <<<<"insufficient", "funds">>, "INSUFFICIENT_BALANCE">>,
       <<<<"min", "notional">>, "MIN_NOTIONAL">>,
       <<<<"min", "_", "notional">>, "MIN_NOTIONAL">>,
       <<<<"rate", "limit">>, "RATE_LIMIT">>,
       <<<<"ratelimit">>, "RATE_LIMIT">>,
       <<<<"ddos">>, "RATE_LIMIT">>,
       <<<<"timeout">>, "WEBSOCKET_TIMEOUT">>,
       <<<<"websocket">>, "WEBSOCKET_TIMEOUT">>,
       <<<<"position", "mismatch">>, "POSITION_MISMATCH">>,
       <<<<"db", "timeout">>, "DB_TIMEOUT">>,
       <<<<"db", "_", "timeout">>, "DB_TIMEOUT">>,
       <<<<"indicator">>, "INDICATOR_ERROR">> >>

\* map_exception_to_reason: the code of the first pattern found in the text
map_exception_to_reason(text) ==
    LET hits == {k \in 1..Len(REASON_PATTERNS) :
                    text_contains(text, REASON_PATTERNS[k][1])}
    IN  IF hits = {} THEN "UNKNOWN_ERROR"
        ELSE REASON_PATTERNS[CHOOSE k \in hits : \A j \in hits : k <= j][2]

\* "Slippage guard: live=# expected=# slip=#bps > #bps", lower-cased
SlippageGuardText ==
    <<"slippage", "guard", "live", "#", "expected", "#", "slip", "#", "bps",
      "#", "bps">>

\* texts of the exceptions raised by the exchange and by the database
ExceptionTexts ==
    {<<"request", "timeout">>, <<"rate", "limit", "exceeded">>,
     <<"network", "down">>}

\* the exception text used where a handler, not send_order alone, is run
HandlerExceptionText == <<"network", "down">>

\* what one send_order call did; exc is the text of the exception caught by
\* the handler at orders.py 118 (<<>>: none caught)
OrderResult(raised, order, cid, fetched, create_called, at_exchange, rep, exc) ==
    [raised |-> raised, order |-> order, client_order_id |-> cid,
     fetch_ticker |-> fetched, create_called |-> create_called,
     at_exchange |-> at_exchange, reporter |-> rep,
     reject_reason |-> IF exc = <<>> THEN None
                       ELSE map_exception_to_reason(exc)]

\* send_order(ctx, exchange, symbol, side, qty, dry_run, expected_price,
\* max_slippage_bps); ex holds the answers of fetch_ticker, create_order and
\* of the order_submissions insert (log_ok).
send_order(qty, dry_run, expected_price, max_slippage_bps, ex) ==
    IF qty <= 0
    THEN OrderResult(FALSE, None, "", FALSE, FALSE, FALSE, <<>>, <<>>)
    ELSE IF dry_run
    THEN OrderResult(FALSE, None, "cid", FALSE, FALSE, FALSE, <<"order_submit">>,
                     <<>>)
    ELSE IF ~ex.ticker.ok
    THEN OrderResult(TRUE, None, "cid", TRUE, FALSE, FALSE,
                     <<"order_submit", "order_reject">>, ex.exc_text)
    ELSE
        LET live == live_price(ex.ticker, expected_price)
            slip == bps_diff(live, expected_price)
        IN  IF slip > max_slippage_bps
            THEN OrderResult(TRUE, None, "cid", TRUE, FALSE, FALSE,
                             <<"order_submit", "order_reject">>,
                             SlippageGuardText)
            ELSE IF ex.create = "raise"
            THEN OrderResult(TRUE, None, "cid", TRUE, TRUE, FALSE,
                             <<"order_submit", "order_reject">>, ex.exc_text)
            ELSE IF ex.create = "empty"
            THEN OrderResult(FALSE, None, "cid", TRUE, TRUE, TRUE,
                             <<"order_submit", "order_ack">>, <<>>)
            ELSE IF ~ex.log_ok
            THEN OrderResult(TRUE, None, "cid", TRUE, TRUE, TRUE,
                             <<"order_submit", "order_ack", "order_reject">>,
                             ex.exc_text)
            ELSE OrderResult(FALSE, "order", "cid", TRUE, TRUE, TRUE,
                             <<"order_submit", "order_ack">>, <<>>)

SendInputs ==
    [qty : QtyInputs, dry_run : BOOLEAN, side : {"buy", "sell"},
     reduce_only : BOOLEAN, expected_price : ExpectedPrices,
     max_slippage_bps : SlippageInputs, ticker : TickerInputs,
     create : CreateInputs, log_ok : BOOLEAN, exc_text : ExceptionTexts]

OFrozen ==
    /\ o_in = <<>>
    /\ o_res = <<>>

\* one send_order call on the drawn arguments
ApplySendOrder ==
    /\ o_in # <<>>
    /\ o_res = <<>>
    /\ LET a == o_in[1]
       IN  o_res' = <<send_order(a.qty, a.dry_run, a.expected_price,
                                 a.max_slippage_bps,
                                 [ticker |-> a.ticker, create |-> a.create,
                                  log_ok |-> a.log_ok,
                                  exc_text |-> a.exc_text])>>
    /\ UNCHANGED <<o_in, rvars, pvars, lvars, svars, evars>>

(***************************************************************************)
(* Part III.  Position manager                                             *)
(*                                                                         *)
(* A bar is the index of the frame's last candle (0: no candle yet, the    *)
(* empty last_candle_time).  Money is whole USD, allocation a percentage,  *)
(* a quantity counts 1/10000 units, ATR multipliers are kept doubled       *)
(* (1.5 -> 3).                                                             *)
(***************************************************************************)
\* last candles the exchange may hand out
MaxBars == 2

\* candles that share an ISO week
BarsPerWeek == 2

\* entry orders the exchange is followed for
MaxOpen == 2

Bars == 1..MaxBars

\* f"{iso.year}-{iso.week}" of the last candle
week_key(bar) == bar \div BarsPerWeek

\* PositionState(week_trade_counts={}): the dataclass defaults
FreshState ==
    [in_position |-> FALSE, position_id |-> "", direction |-> "",
     entry_price |-> 0, entry_time |-> 0, qty |-> 0, base_notional |-> 0,
     peak_price |-> 0, low_price |-> 0, added_levels |-> 0,
     week_trade_counts |-> [w \in {} |-> 0], last_exit_time |-> "",
     last_candle_time |-> 0, cumulative_pnl |-> 0,
     trailing_stop_price |-> 0, trailing_active |-> FALSE]

\* the configuration bundles after normalize_configs, as the two handlers
\* read them
BotContext(dry_run, mode, max_trades) ==
    [dry_run |-> dry_run, mode |-> mode,
     risk_config |-> [max_trades_per_week |-> max_trades,
                      allocation_pct |-> 50, leverage |-> 1,
                      min_notional_usd |-> 15],
     execution_config |-> [max_slippage_bps |-> 100],
     strategy_config |-> [sl_atr_mult2 |-> 3, tp_atr_mult2 |-> 7,
                          trail_atr_mult2 |-> 3, trail_start_r |-> 1,
                          pyramiding_enabled |-> FALSE,
                          max_pyramid_levels |-> 0, pyramid_step_pct |-> 1,
                          pyramid_add_pct |-> 50]]

\* contexts load_context hands out: live with and without room under the
\* weekly cap, paper mode, and a dry-run flag (which forces mode = "paper",
\* bootstrap.py 126-128)
ContextInputs ==
    {BotContext(FALSE, "live", 2), BotContext(FALSE, "live", 0),
     BotContext(FALSE, "paper", 2), BotContext(TRUE, "paper", 0)}

\* a _dry_run that looks at the flag alone
dry_run_flag_only(c) == c.dry_run

\* _dry_run
dry_run_of(c) == c.dry_run \/ c.mode = "paper"

\* compute_notional: (balance * allocation_frac) * leverage
compute_notional(balance_quote, allocation_pct, leverage) ==
    ((balance_quote * allocation_pct) * leverage) \div 100

\* compute_qty: notional / price if price > 0 else 0.0
compute_qty(notional, price) ==
    IF price > 0 THEN (notional * 10000) \div price ELSE 0

\* insert_trade takes exactly these parameters (no **kwargs)
insert_trade_params ==
    {"bot_id", "user_id", "position_id", "side", "price", "qty", "fee",
     "pnl", "exchange_order_id", "executed_at"}

\* keyword arguments the journal passes to insert_trade
journal_trade_kwargs ==
    insert_trade_params \cup
        {"client_order_id", "symbol", "order_type", "order_status", "reduce_only"}

\* a call with an unexpected keyword argument raises TypeError
insert_trade_raises(kwargs) == ~(kwargs \subseteq insert_trade_params)

\* locals of try_open_position bound when line 314 reads entry_order_id:
\* it is assigned at line 318 only, so the read raises UnboundLocalError
try_open_locals_at_entry ==
    {"ex", "reporter", "symbol", "tf", "lb", "df", "last_ts", "last_iso",
     "row", "candle_updated", "iso", "week_key", "long_ok", "short_ok",
     "expected_price", "price", "bal", "notional", "qty", "max_slip",
     "order_side", "order", "client_order_id"}

\* what the exchange, the strategy and the database answer during one
\* try_open_position call
TryDefault ==
    [ohlcv_ok |-> TRUE, prepare_ok |-> TRUE, enough |-> TRUE, bar |-> 1,
     close |-> 100, long_ok |-> "yes", short_ok |-> "no",
     balance_ok |-> TRUE, balance |-> 100,
     ticker |-> [ok |-> TRUE, last |-> 101, close |-> 0],
     create |-> "order", log_ok |-> TRUE, db_ok |-> TRUE]

Dflt(i, fields) == \A f \in fields : i[f] = TryDefault[f]

\* answers that are never asked for keep their default value
TryCanonical(i) ==
    /\ ~i.ohlcv_ok => Dflt(i, DOMAIN i \ {"ohlcv_ok"})
    /\ ~i.prepare_ok => Dflt(i, DOMAIN i \ {"ohlcv_ok", "prepare_ok", "bar"})
    /\ ~i.enough => Dflt(i, DOMAIN i \ {"ohlcv_ok", "prepare_ok", "enough", "bar"})
    /\ i.long_ok = "raise" =>
          Dflt(i, {"close", "short_ok", "balance_ok", "balance", "ticker",
                   "create", "log_ok", "db_ok"})
    /\ i.short_ok = "raise" =>
          Dflt(i, {"close", "balance_ok", "balance", "ticker", "create",
                   "log_ok", "db_ok"})
    /\ (i.long_ok = "no" /\ i.short_ok = "no") =>
          Dflt(i, {"close", "balance_ok", "balance", "ticker", "create", "log_ok"})
    /\ ~i.balance_ok => Dflt(i, {"balance", "ticker", "create", "log_ok", "db_ok"})
    /\ ~i.ticker.ok => Dflt(i, {"create", "log_ok"})
    /\ i.create = "raise" => Dflt(i, {"log_ok"})

TryInputs ==
  { c : c \in
    {i \in [ohlcv_ok : BOOLEAN, prepare_ok : BOOLEAN, enough : BOOLEAN,
            bar : Bars, close : {100},
            long_ok : {"yes", "no", "raise"}, short_ok : {"yes", "no", "raise"},
            balance_ok : BOOLEAN, balance : {20, 100},
            ticker : {[ok |-> TRUE, last |-> 101, close |-> 0],
                      [ok |-> TRUE, last |-> 108, close |-> 0],
                      [ok |-> FALSE, last |-> 0, close |-> 0]},
            create : {"order", "raise"}, log_ok : BOOLEAN, db_ok : BOOLEAN] :
        TryCanonical(i)} }

\* the order result of a call that never reached send_order
NoOrder == OrderResult(FALSE, None, "", FALSE, FALSE, FALSE, <<>>, <<>>)

\* exchange calls inside send_order
order_calls(o) ==
    (IF o.fetch_ticker THEN 1 ELSE 0) + (IF o.create_called THEN 1 ELSE 0)

\* the new STATE of a try_open_position call and what the call did: how it
\* ended, the last bar of the frame it fetched (0: no frame), whether it got
\* past the min_bars check (bar recorded), whether it evaluated a signal,
\* its exchange calls, its send_order call (sent) with what that call did
\* (send) and whether it raised
TryResult(S, outcome, bar, recorded, signals, calls, sent, o, raised) ==
    [state |-> S,
     h |-> [outcome |-> outcome, bar |-> bar, recorded |-> recorded,
            signals |-> signals, exchange_calls |-> calls + order_calls(o),
            sent |-> sent, send |-> o, create_called |-> o.create_called,
            at_exchange |-> o.at_exchange, raised |-> raised]]

\* dict.setdefault(key, 0)
setdefault(d, key) ==
    [k \in (DOMAIN d) \cup {key} |-> IF k \in DOMAIN d THEN d[k] ELSE 0]

\* the tail of try_open_position, from STATE.in_position = True (line 306)
try_open_entry(S2, c, i, wk, notional, qty, o) ==
    LET S3 == [S2 EXCEPT !.in_position = TRUE]
        S4 == [S3 EXCEPT !.position_id = "pos", !.entry_price = i.close,
                         !.entry_time = i.bar, !.qty = qty,
                         !.base_notional = notional, !.peak_price = i.close,
                         !.low_price = i.close, !.added_levels = 0,
                         !.week_trade_counts[wk] = @ + 1]
    IN  IF "entry_order_id" \notin try_open_locals_at_entry
        THEN TryResult(S3, "entry_unbound_local", i.bar, TRUE, TRUE, 2, TRUE, o, TRUE)
        ELSE IF ~i.db_ok \/ insert_trade_raises(journal_trade_kwargs)
        THEN TryResult(S3, "journal_error", i.bar, TRUE, TRUE, 2, TRUE, o, TRUE)
        ELSE TryResult(S4, "opened", i.bar, TRUE, TRUE, 2, TRUE, o, FALSE)

\* a candle check that never recognises the bar
already_processed_never(S, bar) == FALSE

\* line 238: STATE.last_candle_time == last_iso
already_processed(S, bar) == S.last_candle_time = bar

\* try_open_position past its guard (from line 204)
try_open_position_past_guard(S, c, i) ==
    IF ~i.ohlcv_ok
    THEN TryResult(S, "fetch_error", 0, FALSE, FALSE, 1, FALSE, NoOrder, TRUE)
    ELSE IF ~i.prepare_ok
    THEN TryResult(S, "indicator_error", i.bar, FALSE, FALSE, 1, FALSE, NoOrder, TRUE)
    ELSE IF ~i.enough
    THEN TryResult(S, "not_enough_bars", i.bar, FALSE, FALSE, 1, FALSE, NoOrder, FALSE)
    ELSE IF already_processed(S, i.bar)
    THEN TryResult(S, "already_processed", i.bar, TRUE, FALSE, 1, FALSE, NoOrder, FALSE)
    ELSE
      LET wk == week_key(i.bar)
          S1 == [S EXCEPT !.last_candle_time = i.bar,
                          !.week_trade_counts = setdefault(@, wk)]
          notional == compute_notional(i.balance, c.risk_config.allocation_pct,
                                       c.risk_config.leverage)
          qty == compute_qty(notional, i.close)
          S2 == [S1 EXCEPT !.direction = IF i.long_ok = "yes" THEN "long" ELSE "short"]
          o == send_order(qty, dry_run_of(c), i.close,
                          c.execution_config.max_slippage_bps,
                          [ticker |-> i.ticker, create |-> i.create, log_ok |-> i.log_ok,
                         exc_text |-> HandlerExceptionText])
      IN  IF S1.week_trade_counts[wk] >= c.risk_config.max_trades_per_week
          THEN TryResult(S1, "capped", i.bar, TRUE, FALSE, 1, FALSE, NoOrder, ~i.db_ok)
          ELSE IF i.long_ok = "raise" \/ i.short_ok = "raise"
          THEN TryResult(S1, "signal_error", i.bar, TRUE, TRUE, 1, FALSE, NoOrder, TRUE)
          ELSE IF i.long_ok = "no" /\ i.short_ok = "no"
          THEN TryResult(S1, "no_signal", i.bar, TRUE, TRUE, 1, FALSE, NoOrder, ~i.db_ok)
          ELSE IF ~i.balance_ok
          THEN TryResult(S1, "balance_error", i.bar, TRUE, TRUE, 2, FALSE, NoOrder, TRUE)
          ELSE IF notional < c.risk_config.min_notional_usd
          THEN TryResult(S1, "too_small", i.bar, TRUE, TRUE, 2, FALSE, NoOrder, ~i.db_ok)
          ELSE IF o.raised
          THEN TryResult(S2, "order_failed", i.bar, TRUE, TRUE, 2, TRUE, o, TRUE)
          ELSE try_open_entry(S2, c, i, wk, notional, qty, o)

\* try_open_position without the in_position guard of lines 201-202
try_open_position_unguarded(S, c, i) == try_open_position_past_guard(S, c, i)

\* try_open_position(ctx, strategy) on STATE = S with the answers i
try_open_position(S, c, i) ==
    IF S.in_position
    THEN TryResult(S, "in_position", 0, FALSE, FALSE, 0, FALSE, NoOrder, FALSE)
    ELSE try_open_position_past_guard(S, c, i)

Min(a, b) == IF a <= b THEN a ELSE b

\* atr_exit_reason(state, price, atr, cfg): the reason and the state it
\* leaves (it moves peak_price / low_price); thresholds compared doubled
atr_exit_reason(S, price, atr, cfg) ==
    LET sl2 == cfg.sl_atr_mult2 * atr
        tp2 == cfg.tp_atr_mult2 * atr
        trail2 == cfg.trail_atr_mult2 * atr
        entry == S.entry_price
        ldiff == price - entry
        sdiff == entry - price
        SL == [S EXCEPT !.peak_price = Max(@, price)]
        SS == [S EXCEPT !.low_price = Min(@, price)]
    IN  IF atr <= 0 THEN [reason |-> None, state |-> S]
        ELSE IF S.direction = "long"
        THEN IF 2 * ldiff >= tp2 THEN [reason |-> "TP_ATR", state |-> S]
             ELSE IF 2 * ldiff <= 0 - sl2 THEN [reason |-> "SL_ATR", state |-> S]
             ELSE IF 2 * ldiff >= cfg.trail_start_r * sl2
             THEN IF 2 * price <= 2 * SL.peak_price - trail2
                  THEN [reason |-> "TRAIL_ATR", state |-> SL]
                  ELSE [reason |-> None, state |-> SL]
             ELSE [reason |-> None, state |-> S]
        ELSE IF S.direction = "short"
        THEN IF 2 * sdiff >= tp2 THEN [reason |-> "TP_ATR", state |-> S]
             ELSE IF 2 * sdiff <= 0 - sl2 THEN [reason |-> "SL_ATR", state |-> S]
             ELSE IF 2 * sdiff >= cfg.trail_start_r * sl2
             THEN IF 2 * price >= 2 * SS.low_price + trail2
                  THEN [reason |-> "TRAIL_ATR", state |-> SS]
                  ELSE [reason |-> None, state |-> SS]
             ELSE [reason |-> None, state |-> S]
        ELSE [reason |-> None, state |-> S]

\* a maybe_pyramid without the max_pyramid_levels clamp
maybe_pyramid_unclamped(cfg, num, den, added_levels) ==
    IF ~cfg.pyramiding_enabled THEN FALSE
    ELSE num * 100 >= (added_levels + 1) * cfg.pyramid_step_pct * den

\* maybe_pyramid(cfg, move, added_levels) with move = num / den, den > 0
maybe_pyramid(cfg, num, den, added_levels) ==
    IF ~cfg.pyramiding_enabled THEN FALSE
    ELSE IF added_levels >= cfg.max_pyramid_levels THEN FALSE
    ELSE num * 100 >= (added_levels + 1) * cfg.pyramid_step_pct * den

\* pyramid_add_notional
pyramid_add_notional(base_notional, cfg) ==
    (base_notional * cfg.pyramid_add_pct) \div 100

\* what one manage_open_position call did
ManageResult(S, outcome, calls, sent, o, raised) ==
    [state |-> S,
     h |-> [outcome |-> outcome, exchange_calls |-> calls + order_calls(o),
            sent |-> sent, send |-> o, create_called |-> o.create_called,
            at_exchange |-> o.at_exchange, raised |-> raised]]

\* lines 80-115: the gauges kept in the model (peak / low / trailing stop)
manage_update_gauges(S, c, price, atr) ==
    LET cfg == c.strategy_config
        sign == IF S.direction = "long" THEN 1 ELSE 0 - 1
        unreal == (price - S.entry_price) * S.qty * sign
        active == 2 * unreal >= cfg.trail_start_r * cfg.sl_atr_mult2 * atr * 10000
        peak == Max(S.peak_price, price)
        low == Min(S.low_price, price)
    IN  IF S.direction = "long"
        THEN [S EXCEPT !.peak_price = peak, !.trailing_active = active,
                       !.trailing_stop_price =
                           IF active THEN peak - (cfg.trail_atr_mult2 * atr) \div 2 ELSE @]
        ELSE IF S.direction = "short"
        THEN [S EXCEPT !.low_price = low, !.trailing_active = active,
                       !.trailing_stop_price =
                           IF active THEN low + (cfg.trail_atr_mult2 * atr) \div 2 ELSE @]
        ELSE S

\* lines 118-170: the exit branch
manage_exit(S, c, i, price) ==
    LET sign == IF S.direction = "long" THEN 1 ELSE 0 - 1
        pnl == (price - S.entry_price) * S.qty * sign
        o == send_order(S.qty, dry_run_of(c), i.close,
                        c.execution_config.max_slippage_bps,
                        [ticker |-> i.ticker, create |-> i.create, log_ok |-> i.log_ok,
                         exc_text |-> HandlerExceptionText])
        SE == [FreshState EXCEPT !.week_trade_counts = S.week_trade_counts,
                                 !.last_candle_time = S.last_candle_time,
                                 !.cumulative_pnl = S.cumulative_pnl + pnl,
                                 !.last_exit_time = "ts"]
    IN  IF o.raised
        THEN ManageResult(S, "exit_order_failed", 2, TRUE, o, TRUE)
        ELSE IF ~i.db_ok \/ insert_trade_raises(journal_trade_kwargs \cup {"exchange_payload"})
        THEN ManageResult(S, "exit_journal_error", 2, TRUE, o, TRUE)
        ELSE ManageResult(SE, "exited", 2, TRUE, o, FALSE)

\* lines 173-195: the pyramiding loop
RECURSIVE pyramid_loop(_, _, _, _)
pyramid_loop(S, c, i, price) ==
    LET cfg == c.strategy_config
        num == IF S.direction = "long" THEN price - S.entry_price
               ELSE S.entry_price - price
        add_qty == compute_qty(pyramid_add_notional(S.base_notional, cfg), price)
        o == send_order(add_qty, dry_run_of(c), i.close,
                        c.execution_config.max_slippage_bps,
                        [ticker |-> i.ticker, create |-> i.create, log_ok |-> i.log_ok,
                         exc_text |-> HandlerExceptionText])
        S1 == [S EXCEPT !.qty = @ + add_qty, !.added_levels = @ + 1]
    IN  IF ~maybe_pyramid(cfg, num, S.entry_price, S.added_levels)
        THEN ManageResult(S, "held", 2, FALSE, NoOrder, ~i.db_ok)
        ELSE IF o.raised
        THEN ManageResult(S, "pyramid_order_failed", 2, TRUE, o, TRUE)
        ELSE IF insert_trade_raises(journal_trade_kwargs)
        THEN ManageResult(S1, "pyramid_journal_error", 2, TRUE, o, TRUE)
        ELSE pyramid_loop(S1, c, i, price)

\* manage_open_position past its guard (from line 50)
manage_open_position_past_guard(S, c, i) ==
    IF ~i.price_ok
    THEN ManageResult(S, "price_error", 1, FALSE, NoOrder, TRUE)
    ELSE IF ~i.ohlcv_ok
    THEN ManageResult(S, "fetch_error", 2, FALSE, NoOrder, TRUE)
    ELSE IF ~i.prepare_ok
    THEN ManageResult(S, "indicator_error", 2, FALSE, NoOrder, TRUE)
    ELSE
      LET S1 == manage_update_gauges(S, c, i.price, i.atr)
          r == atr_exit_reason(S1, i.price, i.atr, c.strategy_config)
      IN  IF r.reason # None
          THEN manage_exit(r.state, c, i, i.price)
          ELSE IF r.state.entry_price = 0
          THEN ManageResult(r.state, "zero_division", 2, FALSE, NoOrder, TRUE)
          ELSE pyramid_loop(r.state, c, i, i.price)

\* manage_open_position(ctx, strategy) on STATE = S with the answers i
manage_open_position(S, c, i) ==
    IF ~S.in_position
    THEN ManageResult(S, "not_in_position", 0, FALSE, NoOrder, FALSE)
    ELSE manage_open_position_past_guard(S, c, i)

\* what the exchange, the strategy and the database answer during one
\* manage_open_position call
ManageDefault ==
    [price_ok |-> TRUE, price |-> 100, ohlcv_ok |-> TRUE, prepare_ok |-> TRUE,
     atr |-> 2, close |-> 100,
     ticker |-> [ok |-> TRUE, last |-> 101, close |-> 0],
     create |-> "order", log_ok |-> TRUE, db_ok |-> TRUE]

MDflt(i, fields) == \A f \in fields : i[f] = ManageDefault[f]

ManageCanonical(i) ==
    /\ ~i.price_ok => MDflt(i, DOMAIN i \ {"price_ok"})
    /\ ~i.ohlcv_ok => MDflt(i, DOMAIN i \ {"price_ok", "price", "ohlcv_ok"})
    /\ ~i.prepare_ok =>
          MDflt(i, DOMAIN i \ {"price_ok", "price", "ohlcv_ok", "prepare_ok"})
    /\ ~i.ticker.ok => MDflt(i, {"create", "log_ok"})
    /\ i.create = "raise" => MDflt(i, {"log_ok"})

ManageInputs ==
  { c : c \in
    {i \in [price_ok : BOOLEAN, price : {100, 108}, ohlcv_ok : BOOLEAN,
            prepare_ok : BOOLEAN, atr : {0, 2}, close : {100},
            ticker : {[ok |-> TRUE, last |-> 101, close |-> 0],
                      [ok |-> TRUE, last |-> 108, close |-> 0],
                      [ok |-> FALSE, last |-> 0, close |-> 0]},
            create : {"order", "raise"}, log_ok : BOOLEAN, db_ok : BOOLEAN] :
        ManageCanonical(i)} }

\* the summary of a try_open_position call, with how its frame relates to
\* the frame of the try_open_position call before it (prev)
TryObserved(h, prev) ==
    [outcome |-> h.outcome, bar |-> h.bar, recorded |-> h.recorded,
     signals |-> h.signals, exchange_calls |-> h.exchange_calls,
     sent |-> h.sent, send |-> h.send, create_called |-> h.create_called,
     at_exchange |-> h.at_exchange, raised |-> h.raised,
     same_bar |-> h.bar # 0 /\ h.bar = prev.bar,
     prev_recorded |-> prev.recorded]

NoTry ==
    [outcome |-> "none", bar |-> 0, recorded |-> FALSE, signals |-> FALSE,
     exchange_calls |-> 0, sent |-> FALSE, send |-> NoOrder,
     create_called |-> FALSE,
     at_exchange |-> FALSE, raised |-> FALSE, same_bar |-> FALSE,
     prev_recorded |-> FALSE]

NoManage == ManageResult(FreshState, "none", 0, FALSE, NoOrder, FALSE).h

\* the worker after bootstrap: a fresh module-level STATE, whatever the
\* startup sync found (an open row whose position is live at the exchange
\* passes the sync and is not loaded into STATE)
PInit ==
    /\ ctx \in ContextInputs
    /\ POSITION_STATE = FreshState
    /\ exch_positions \in {0, 1}
    /\ last_op = "none"
    /\ h_try = NoTry
    /\ h_manage = NoManage

PFrozen ==
    /\ ctx = BotContext(FALSE, "live", 2)
    /\ POSITION_STATE = FreshState
    /\ exch_positions = 0
    /\ last_op = "none"
    /\ h_try = NoTry
    /\ h_manage = NoManage

RFrozen ==
    /\ now = BootClock
    /\ tier = DEFAULT_TIER
    /\ rep_in_position = FALSE
    /\ pending_patch = EmptyPatch
    /\ last_flush_ts = 0
    /\ scheduled_flush_ts = 0
    /\ scheduled_reason = None
    /\ pc = [t \in Threads |-> "idle"]
    /\ tok = [t \in Threads |-> NoToken]
    /\ h_succ = -1
    /\ h_owed = {}
    /\ h_decl = [n |-> 0, last |-> None, taken_n |-> 0, own |-> None]

\* one loop tick in WAITING_FOR_ENTRY: try_open_position(ctx, strategy);
\* a call made in position asks the outside world nothing, so one set of
\* answers stands for all
TryOpen ==
    /\ exch_positions < MaxOpen
    /\ \E i \in (IF POSITION_STATE.in_position THEN {TryDefault} ELSE TryInputs) :
         LET r == try_open_position(POSITION_STATE, ctx, i)
         IN  /\ POSITION_STATE' = r.state
             /\ h_try' = TryObserved(r.h, h_try)
             /\ exch_positions' = exch_positions + (IF r.h.at_exchange THEN 1 ELSE 0)
    /\ last_op' = "try_open_position"
    /\ UNCHANGED <<ctx, h_manage, rvars, ovars, lvars, svars, evars>>

\* one loop tick in IN_POSITION / IDLE: manage_open_position(ctx, strategy)
Manage ==
    /\ \E i \in (IF POSITION_STATE.in_position THEN ManageInputs ELSE {ManageDefault}) :
         LET r == manage_open_position(POSITION_STATE, ctx, i)
         IN  /\ POSITION_STATE' = r.state
             /\ h_manage' = r.h
             /\ exch_positions' =
                   IF r.h.at_exchange THEN Max(0, exch_positions - 1)
                   ELSE exch_positions
    /\ last_op' = "manage_open_position"
    /\ UNCHANGED <<ctx, h_try, rvars, ovars, lvars, svars, evars>>

PNext == TryOpen \/ Manage

(***************************************************************************)
(* Part IV.  run_loop (bot/runtime/loop.py)                                *)
(*                                                                         *)
(* One step is one pass through the body of `while True`, from the clock   *)
(* read at line 117 to the sleep at line 214 or to the end of the except   *)
(* handler.  The reporter calls of the loop are those of Part I and the    *)
(* scheduler calls those of Part V; this part follows the loop's own       *)
(* variables, the controls it refreshes, the events it writes and the      *)
(* handler it calls.  A tick may last any time, so whether the exchange    *)
(* sync or the 60 s control refresh is due is an input of the tick; the    *)
(* sync answer "ok" stands for a sync that was not due as well.            *)
(***************************************************************************)
CONTROL_REFRESH_SECONDS == 60

CONTROL_REFRESH_POLLS == 20

\* bot.core.safety.MIN_POLL_SECONDS, the global floor of the poll interval
MIN_POLL_SECONDS == 30

\* bot.core.safety.MAX_CONSECUTIVE_ERRORS
MAX_CONSECUTIVE_ERRORS == 5

BotState == {"INIT", "IDLE", "WAITING_FOR_ENTRY", "IN_POSITION", "COOLDOWN", "HALT"}

\* exchange_sync.maybe_sync(): it returns (not due, or a clean run), raises
\* ExchangeSyncError, or raises another exception (the database or the
\* exchange failing)
SyncInputs == {"ok", "ExchangeSyncError", "error"}

ControlConfig(trading_enabled, kill_switch, pause_requested) ==
    [trading_enabled |-> trading_enabled, kill_switch |-> kill_switch,
     pause_requested |-> pause_requested]

\* control_config rows after normalize_configs: all clear, and one with each
\* of the three switches thrown
ControlConfigs ==
    {ControlConfig(TRUE, FALSE, FALSE), ControlConfig(FALSE, FALSE, FALSE),
     ControlConfig(TRUE, TRUE, FALSE), ControlConfig(TRUE, FALSE, TRUE)}

\* refresh_controls(ctx.id): it raises, or returns the stored control_config
\* (cc = <<>> when the column is empty) and the subscription status; an
\* inactive subscription ends the run before the switches are read, so one
\* such answer stands for all
RefreshInputs ==
    [ok : {TRUE}, cc : {<<>>} \cup {<<k>> : k \in ControlConfigs},
     subscription_status : {"active"}]
        \cup {[ok |-> TRUE, cc |-> <<>>, subscription_status |-> "inactive"],
              [ok |-> FALSE, cc |-> <<>>, subscription_status |-> "inactive"]}

RefreshDefault == [ok |-> FALSE, cc |-> <<>>, subscription_status |-> "inactive"]

\* a tick in HALT returns whatever the switches say: there the answers
\* differ by the subscription status only
RefreshInputsInHalt == {r \in RefreshInputs : r.cc = <<>>}

\* lines 134-138: the controls after a refresh that answered r
refreshed_controls(c, r) ==
    IF ~r.ok THEN c
    ELSE IF r.cc = <<>>
    THEN [c EXCEPT !.subscription_status = r.subscription_status]
    ELSE [subscription_status |-> r.subscription_status,
          trading_enabled |-> r.cc[1].trading_enabled,
          kill_switch |-> r.cc[1].kill_switch,
          pause_requested |-> r.cc[1].pause_requested]

\* a _pause_reason that does not look at the kill switch
pause_reason_no_kill_switch(c) ==
    IF c.subscription_status # "active" THEN "subscription_inactive"
    ELSE IF ~c.trading_enabled THEN "trading_disabled"
    ELSE IF c.pause_requested THEN "pause_requested"
    ELSE None

\* _pause_reason(ctx)
pause_reason(c) ==
    IF c.subscription_status # "active" THEN "subscription_inactive"
    ELSE IF c.kill_switch THEN "kill_switch"
    ELSE IF ~c.trading_enabled THEN "trading_disabled"
    ELSE IF c.pause_requested THEN "pause_requested"
    ELSE None

\* lines 154, 163, 173: pause_reason or not trading_enabled
must_idle(c) == pause_reason(c) # None \/ ~c.trading_enabled

\* loop.py reads POSITION_STATE, the object position.STATE named at import;
\* the exit branch rebinds position.STATE (line 159) and leaves the old
\* object, in_position still True, to the loop
loop_in_position(S, rebound) == IF rebound THEN TRUE ELSE S.in_position

\* the except handler, lines 217-242, entered with `consec` errors counted
\* and the loop in state st
on_exception(consec, st) ==
    IF consec + 1 >= MAX_CONSECUTIVE_ERRORS
    THEN [consec_errors |-> consec + 1, loop_state |-> st,
          loop_exit |-> "too_many_errors", events |-> <<"error", "stopped">>,
          notified |-> TRUE, fail_healthcheck |-> TRUE]
    ELSE [consec_errors |-> consec + 1, loop_state |-> "HALT",
          loop_exit |-> "running", events |-> <<"error">>,
          notified |-> FALSE, fail_healthcheck |-> FALSE]

\* a tick prefix whose outer handler counts ExchangeSyncError like any
\* other exception
tick_prefix_sync_recoverable(st, polls, c, sync, time_due, r) ==
    LET polls1 == polls + 1
        due == time_due \/ polls1 >= CONTROL_REFRESH_POLLS
        c1 == IF due THEN refreshed_controls(c, r) ELSE c
        polls2 == IF due THEN 0 ELSE polls1
        idle == must_idle(c1)
        paused == IF idle /\ st # "IDLE" THEN <<"paused">> ELSE <<>>
    IN  IF sync \in {"ExchangeSyncError", "error"}
        THEN [stage |-> "error", loop_state |-> st, polls |-> polls,
              controls |-> c, refreshed |-> FALSE, events |-> <<>>]
        ELSE IF due /\ c1.subscription_status # "active"
        THEN [stage |-> "stopped_payment", loop_state |-> st, polls |-> polls2,
              controls |-> c1, refreshed |-> TRUE,
              events |-> <<"stopped_payment">>]
        ELSE IF st = "HALT"
        THEN [stage |-> "halt", loop_state |-> st, polls |-> polls2,
              controls |-> c1, refreshed |-> due, events |-> <<>>]
        ELSE [stage |-> "dispatch",
              loop_state |-> IF idle THEN "IDLE" ELSE st, polls |-> polls2,
              controls |-> c1, refreshed |-> due, events |-> paused]

\* a tick prefix without the subscription check of lines 143-146, which
\* leaves an inactive subscription to the pause handling
tick_prefix_no_payment_stop(st, polls, c, sync, time_due, r) ==
    LET polls1 == polls + 1
        due == time_due \/ polls1 >= CONTROL_REFRESH_POLLS
        c1 == IF due THEN refreshed_controls(c, r) ELSE c
        polls2 == IF due THEN 0 ELSE polls1
        idle == must_idle(c1)
        paused == IF idle /\ st # "IDLE" THEN <<"paused">> ELSE <<>>
    IN  IF sync = "ExchangeSyncError"
        THEN [stage |-> "sync_fatal", loop_state |-> st, polls |-> polls,
              controls |-> c, refreshed |-> FALSE, events |-> <<>>]
        ELSE IF sync = "error"
        THEN [stage |-> "error", loop_state |-> st, polls |-> polls,
              controls |-> c, refreshed |-> FALSE, events |-> <<>>]
        ELSE IF st = "HALT"
        THEN [stage |-> "halt", loop_state |-> st, polls |-> polls2,
              controls |-> c1, refreshed |-> due, events |-> <<>>]
        ELSE [stage |-> "dispatch",
              loop_state |-> IF idle THEN "IDLE" ELSE st, polls |-> polls2,
              controls |-> c1, refreshed |-> due, events |-> paused]

\* lines 119-159: the tick up to the state dispatch.  `stage` tells where
\* it stands: "sync_fatal" (ExchangeSyncError re-raised), "error" (into the
\* except handler), "stopped_payment" and "halt" (the two returns), or
\* "dispatch"
tick_prefix(st, polls, c, sync, time_due, r) ==
    LET polls1 == polls + 1
        due == time_due \/ polls1 >= CONTROL_REFRESH_POLLS
        c1 == IF due THEN refreshed_controls(c, r) ELSE c
        polls2 == IF due THEN 0 ELSE polls1
        idle == must_idle(c1)
        paused == IF idle /\ st # "IDLE" THEN <<"paused">> ELSE <<>>
    IN  IF sync = "ExchangeSyncError"
        THEN [stage |-> "sync_fatal", loop_state |-> st, polls |-> polls,
              controls |-> c, refreshed |-> FALSE, events |-> <<>>]
        ELSE IF sync = "error"
        THEN [stage |-> "error", loop_state |-> st, polls |-> polls,
              controls |-> c, refreshed |-> FALSE, events |-> <<>>]
        ELSE IF due /\ c1.subscription_status # "active"
        THEN [stage |-> "stopped_payment", loop_state |-> st, polls |-> polls2,
              controls |-> c1, refreshed |-> TRUE,
              events |-> <<"stopped_payment">>]
        ELSE IF st = "HALT"
        THEN [stage |-> "halt", loop_state |-> st, polls |-> polls2,
              controls |-> c1, refreshed |-> due, events |-> <<>>]
        ELSE [stage |-> "dispatch",
              loop_state |-> IF idle THEN "IDLE" ELSE st, polls |-> polls2,
              controls |-> c1, refreshed |-> due, events |-> paused]

\* the handler the dispatch of lines 161-192 calls in state st
handler_of(st, in_position) ==
    IF st = "IDLE" /\ in_position THEN "manage_open_position"
    ELSE IF st = "WAITING_FOR_ENTRY" THEN "try_open_position"
    ELSE IF st = "IN_POSITION" THEN "manage_open_position"
    ELSE "none"

\* lines 161-192: the state after a dispatch whose handler returned, the
\* loop then seeing in_position = inpos
dispatch_state(st, c, inpos) ==
    IF st = "INIT"
    THEN IF must_idle(c) THEN "IDLE"
         ELSE IF inpos THEN "IN_POSITION" ELSE "WAITING_FOR_ENTRY"
    ELSE IF st = "IDLE"
    THEN IF pause_reason(c) = None /\ c.trading_enabled
         THEN IF inpos THEN "IN_POSITION" ELSE "WAITING_FOR_ENTRY"
         ELSE "IDLE"
    ELSE IF st = "WAITING_FOR_ENTRY"
    THEN IF inpos THEN "IN_POSITION" ELSE "WAITING_FOR_ENTRY"
    ELSE IF st = "IN_POSITION"
    THEN IF ~inpos THEN "COOLDOWN" ELSE "IN_POSITION"
    ELSE IF st = "COOLDOWN" THEN "WAITING_FOR_ENTRY"
    ELSE st

\* what one tick did
NoTick ==
    [state_before |-> "none", sync |-> "none", stage |-> "none",
     called |-> "none",
     raised |-> FALSE, events |-> <<>>, refreshed |-> FALSE,
     order_sent |-> FALSE, notified |-> FALSE, fail_healthcheck |-> FALSE]

\* run_loop before its first tick (lines 96-103), entered by bootstrap
\* after the subscription check and startup_gate passed
LInit ==
    /\ loop_state = "INIT"
    /\ loop_pc = "top"
    /\ consec_errors = 0
    /\ control_refresh_polls = 0
    /\ refresh_age = 0
    /\ controls \in [subscription_status : {"active"}, trading_enabled : {TRUE},
                     kill_switch : {FALSE}, pause_requested : BOOLEAN]
    /\ alias_rebound = FALSE
    /\ loop_exit = "running"
    /\ h_tick = NoTick
    /\ h_run = [stopped |-> FALSE, fail_healthcheck |-> FALSE]

LFrozen ==
    /\ loop_state = "INIT"
    /\ loop_pc = "top"
    /\ consec_errors = 0
    /\ control_refresh_polls = 0
    /\ refresh_age = 0
    /\ controls = [subscription_status |-> "active", trading_enabled |-> TRUE,
                   kill_switch |-> FALSE, pause_requested |-> FALSE]
    /\ alias_rebound = FALSE
    /\ loop_exit = "running"
    /\ h_tick = NoTick
    /\ h_run = [stopped |-> FALSE, fail_healthcheck |-> FALSE]

\* line 132's `now - last_control_refresh >= CONTROL_REFRESH_SECONDS`: on
\* the first tick last_control_refresh is 0.0 and the clock is the host's;
\* later the clock has moved by at least the sleeps taken since the
\* refresh, each no shorter than the scheduler's floor, and by the time the
\* ticks themselves took
TimeDueInputs ==
    IF loop_state # "INIT"
       /\ refresh_age * MIN_POLL_SECONDS >= CONTROL_REFRESH_SECONDS
    THEN {TRUE} ELSE BOOLEAN

\* lines 117-159: the tick from the clock read to the state dispatch,
\* with the except handler when the sync failed
TickStart ==
    /\ loop_exit = "running"
    /\ loop_pc = "top"
    /\ \E sync \in SyncInputs :
       \E time_due \in (IF sync \in {"ExchangeSyncError", "error"}
                        THEN {FALSE} ELSE TimeDueInputs) :
       \E r \in (IF sync \in {"ExchangeSyncError", "error"}
                    \/ ~(time_due
                         \/ control_refresh_polls + 1 >= CONTROL_REFRESH_POLLS)
                 THEN {RefreshDefault}
                 ELSE IF loop_state = "HALT" THEN RefreshInputsInHalt
                 ELSE RefreshInputs) :
         LET pre == tick_prefix(loop_state, control_refresh_polls, controls,
                                sync, time_due, r)
             failed == pre.stage = "error"
             ex == on_exception(consec_errors, pre.loop_state)
         IN  /\ controls' = pre.controls
             /\ control_refresh_polls' = pre.polls
             /\ refresh_age' = IF pre.refreshed THEN 0 ELSE refresh_age
             /\ loop_state' = IF failed THEN ex.loop_state ELSE pre.loop_state
             /\ consec_errors' = IF failed THEN ex.consec_errors ELSE consec_errors
             /\ loop_exit' =
                   IF failed THEN ex.loop_exit
                   ELSE IF pre.stage = "sync_fatal" THEN "ExchangeSyncError"
                   ELSE IF pre.stage = "dispatch" THEN "running"
                   ELSE pre.stage
             /\ loop_pc' = IF pre.stage = "dispatch" THEN "dispatch" ELSE "top"
             /\ h_tick' =
                   [state_before |-> loop_state, sync |-> sync,
                    stage |-> pre.stage,
                    called |-> "none", raised |-> failed,
                    events |-> pre.events \o (IF failed THEN ex.events ELSE <<>>),
                    refreshed |-> pre.refreshed, order_sent |-> FALSE,
                    notified |-> failed /\ ex.notified,
                    fail_healthcheck |-> failed /\ ex.fail_healthcheck]
             /\ h_run' =
                   [stopped |-> h_run.stopped \/ (failed /\ ex.notified),
                    fail_healthcheck |-> h_run.fail_healthcheck
                                           \/ (failed /\ ex.fail_healthcheck)]
    /\ UNCHANGED <<alias_rebound, pvars, rvars, ovars, svars, evars>>

\* lines 161-214: the state dispatch with the handler it calls (answers i
\* for try_open_position, m for manage_open_position), then the sleep, or
\* the except handler when the handler raised
TickDispatch ==
    /\ loop_exit = "running"
    /\ loop_pc = "dispatch"
    /\ LET h == handler_of(loop_state,
                           loop_in_position(POSITION_STATE, alias_rebound))
       IN  \E i \in (IF h = "try_open_position" /\ ~POSITION_STATE.in_position
                     THEN TryInputs ELSE {TryDefault}) :
           \E m \in (IF h = "manage_open_position" /\ POSITION_STATE.in_position
                     THEN ManageInputs ELSE {ManageDefault}) :
             LET t == try_open_position(POSITION_STATE, ctx, i)
                 g == manage_open_position(POSITION_STATE, ctx, m)
                 S1 == IF h = "try_open_position" THEN t.state
                       ELSE IF h = "manage_open_position" THEN g.state
                       ELSE POSITION_STATE
                 sent == (h = "try_open_position" /\ t.h.sent)
                            \/ (h = "manage_open_position" /\ g.h.sent)
                 filled == (h = "try_open_position" /\ t.h.at_exchange)
                              \/ (h = "manage_open_position" /\ g.h.at_exchange)
                 failed == (h = "try_open_position" /\ t.h.raised)
                              \/ (h = "manage_open_position" /\ g.h.raised)
                 rebound1 == alias_rebound
                                \/ (h = "manage_open_position"
                                      /\ g.h.outcome = "exited")
                 ex == on_exception(consec_errors, loop_state)
                 started == IF loop_state = "INIT" THEN <<"started">> ELSE <<>>
             IN  /\ POSITION_STATE' = S1
                 /\ h_try' = IF h = "try_open_position"
                             THEN TryObserved(t.h, h_try) ELSE h_try
                 /\ h_manage' = IF h = "manage_open_position" THEN g.h
                                ELSE h_manage
                 /\ exch_positions' =
                       IF ~filled THEN exch_positions
                       ELSE IF h = "try_open_position" THEN exch_positions + 1
                       ELSE Max(0, exch_positions - 1)
                 /\ last_op' = h
                 /\ alias_rebound' = rebound1
                 /\ loop_state' =
                       IF failed THEN ex.loop_state
                       ELSE dispatch_state(loop_state, controls,
                                           loop_in_position(S1, rebound1))
                 /\ consec_errors' = IF failed THEN ex.consec_errors ELSE 0
                 /\ loop_exit' = IF failed THEN ex.loop_exit ELSE "running"
                 /\ refresh_age' = IF failed THEN refresh_age
                                   ELSE refresh_age + 1
                 /\ h_tick' =
                       [h_tick EXCEPT
                          !.called = h, !.raised = failed,
                          !.events = @ \o started
                                       \o (IF failed THEN ex.events ELSE <<>>),
                          !.order_sent = sent,
                          !.notified = failed /\ ex.notified,
                          !.fail_healthcheck = failed /\ ex.fail_healthcheck]
                 /\ h_run' =
                       [stopped |-> h_run.stopped \/ (failed /\ ex.notified),
                        fail_healthcheck |-> h_run.fail_healthcheck
                                               \/ (failed /\ ex.fail_healthcheck)]
    /\ loop_pc' = "top"
    /\ UNCHANGED <<ctx, controls, control_refresh_polls, rvars, ovars, svars, evars>>

LNext == TickStart \/ TickDispatch

-----------------------------------------------------------------------------
\* Part V: JitterScheduler (bot/runtime/scheduler.py) as run_loop drives it.
\* Times are whole seconds; an absent optional argument is <<>>, a given
\* one <<x>>.

MaxTicks == 3

\* JitterScheduler.__init__
scheduler_init(base_seconds, jitter_seconds, min_seconds) ==
    LET m == Max(IF min_seconds = <<>> THEN MIN_POLL_SECONDS
                 ELSE min_seconds[1], MIN_POLL_SECONDS)
    IN  [min_seconds |-> m,
         base |-> Max(base_seconds, m),
         jitter |-> Max(jitter_seconds, 0)]

\* the values random.uniform(-jitter, jitter) is drawn from at line 38;
\* `if jitter` skips the draw when jitter is 0
JitterDeltas(jitter) == IF jitter = 0 THEN {0} ELSE (0 - jitter)..jitter

\* a next_interval that returns base + delta without the floor of line 39
next_interval_unfloored(s, base_override, jitter_override, min_override, delta) ==
    LET m == IF min_override # <<>>
             THEN Max(min_override[1], MIN_POLL_SECONDS) ELSE s.min_seconds
        base == IF base_override # <<>> THEN Max(base_override[1], m)
                ELSE s.base
        jitter == IF jitter_override # <<>> THEN Max(jitter_override[1], 0)
                  ELSE s.jitter
    IN  [sch |-> [min_seconds |-> m, base |-> base, jitter |-> jitter],
         interval |-> base + delta]

\* JitterScheduler.next_interval, delta being the draw of line 38
next_interval(s, base_override, jitter_override, min_override, delta) ==
    LET m == IF min_override # <<>>
             THEN Max(min_override[1], MIN_POLL_SECONDS) ELSE s.min_seconds
        base == IF base_override # <<>> THEN Max(base_override[1], m)
                ELSE s.base
        jitter == IF jitter_override # <<>> THEN Max(jitter_override[1], 0)
                  ELSE s.jitter
    IN  [sch |-> [min_seconds |-> m, base |-> base, jitter |-> jitter],
         interval |-> Max(m, base + delta)]

\* the jitter next_interval draws from, known before the draw
next_jitter(s, jitter_override) ==
    IF jitter_override # <<>> THEN Max(jitter_override[1], 0) ELSE s.jitter

\* a sleep_for that does not bother to sleep a last remaining second
sleep_for_skipping_short(interval, started_at, monotonic, oversleep) ==
    LET target == started_at + interval
        remaining == target - monotonic
    IN  IF remaining > 1 THEN monotonic + remaining + oversleep ELSE monotonic

\* JitterScheduler.sleep_for: the clock when it returns, entered at clock
\* `monotonic`; time.sleep returns no earlier than asked, `oversleep` later
sleep_for(interval, started_at, monotonic, oversleep) ==
    LET target == started_at + interval
        remaining == target - monotonic
    IN  IF remaining > 0 THEN monotonic + remaining + oversleep ELSE monotonic

\* constructor arguments of line 99 and overrides of lines 208-212
BaseInputs == {10, 45}
JitterInputs == {0 - 5, 1}
MinInputs == {<<>>, <<40>>}
BaseOverrides == {<<>>, <<10>>, <<60>>}
JitterOverrides == {<<>>, <<0 - 5>>, <<1>>}
MinOverrides == {<<>>, <<20>>, <<40>>}

\* seconds a tick's work takes (lines 118-207): less than any interval,
\* or more than any
TickSeconds == {29, 70}
Oversleeps == {0, 1}

\* the overrides every next_interval call of a run is given (run_loop
\* takes them from _resolve_polling, whose inputs no tick changes), and
\* what the last tick did
NoSchedCall ==
    [op |-> "init", n |-> 0, t0 |-> 0, started_at |-> 0,
     tick_seconds |-> 0, base_override |-> <<>>, jitter_override |-> <<>>,
     min_override |-> <<>>, interval |-> 0]

SInit ==
    /\ sch \in {scheduler_init(b, j, m) :
                   b \in BaseInputs, j \in JitterInputs, m \in MinInputs}
    /\ clock = 0
    /\ h_sched \in {[NoSchedCall EXCEPT !.base_override = bo,
                                         !.jitter_override = jo,
                                         !.min_override = mo] :
                       bo \in BaseOverrides, jo \in JitterOverrides,
                       mo \in MinOverrides}

\* scheduler.startup_stagger() at line 100: sleeps uniform(0, base)
StartupStagger ==
    /\ h_sched.op = "init"
    /\ \E delay \in {0, sch.base} :
         /\ clock' = clock + delay
         /\ h_sched' = [h_sched EXCEPT !.op = "startup_stagger",
                                       !.t0 = clock + delay]
    /\ UNCHANGED <<sch, rvars, ovars, pvars, lvars, evars>>

\* one tick of run_loop that raises nothing: `now` read at line 117, the
\* work of the tick, next_interval at 208 and sleep_for at 214
SchedulerTick ==
    /\ h_sched.op # "init"
    /\ h_sched.n < MaxTicks
    /\ \E d \in TickSeconds, over \in Oversleeps :
       \E delta \in JitterDeltas(next_jitter(sch, h_sched.jitter_override)) :
         LET started == clock
             r == next_interval(sch, h_sched.base_override,
                                h_sched.jitter_override,
                                h_sched.min_override, delta)
         IN  /\ over = 1 => started + d < started + r.interval
             /\ sch' = r.sch
             /\ clock' = sleep_for(r.interval, started, started + d, over)
             /\ h_sched' =
                   [h_sched EXCEPT
                      !.op = "tick", !.n = @ + 1,
                      !.started_at = started, !.tick_seconds = d,
                      !.interval = r.interval]
    /\ UNCHANGED <<rvars, ovars, pvars, lvars, evars>>

SNext == StartupStagger \/ SchedulerTick

SFrozen ==
    /\ sch = [min_seconds |-> 0, base |-> 0, jitter |-> 0]
    /\ clock = 0
    /\ h_sched = NoSchedCall

-----------------------------------------------------------------------------
\* Part VI: HealthWindow (bot/health/window.py).  Timestamps are whole
\* seconds of time.time().

ROLLING_WINDOW_SECONDS == 900

MaxCalls == 4

\* _HEALTH_KEYS
HEALTH_KEYS ==
    {"rate_limit_hit", "candle_gap", "stream_disconnect", "indicator_error",
     "decision", "order_reject", "db_error"}

\* keys and times the calls are made with: two known keys and one the
\* window does not hold; times around one window length
WindowKeyInputs == {"decision", "order_reject", "latency"}
WindowTimeInputs == {0, 100, 1000, 1001}

RECURSIVE prune_bucket_inclusive(_, _, _)
\* a _prune_bucket that also drops the entry exactly at the cutoff
prune_bucket_inclusive(bucket, current, duration) ==
    IF bucket # <<>> /\ Head(bucket) <= current - duration
    THEN prune_bucket_inclusive(Tail(bucket), current, duration)
    ELSE bucket

RECURSIVE prune_bucket(_, _, _)
\* HealthWindow._prune_bucket: pops from the left while the leftmost entry
\* is older than the cutoff
prune_bucket(bucket, current, duration) ==
    IF bucket # <<>> /\ Head(bucket) < current - duration
    THEN prune_bucket(Tail(bucket), current, duration)
    ELSE bucket

\* HealthWindow.__init__
WInit ==
    /\ win_buckets = [k \in HEALTH_KEYS |-> <<>>]
    /\ win_log = [k \in HEALTH_KEYS |-> <<>>]
    /\ h_win = [op |-> "init", key |-> None, time |-> 0, result |-> 0,
                ordered |-> TRUE, calls |-> 0]

WFrozen == WInit

\* whether a call at time t keeps the calls so far in time order
win_ordered(t) == h_win.ordered /\ (h_win.op = "init" \/ t >= h_win.time)

\* HealthWindow.inc(key, timestamp)
WindowInc ==
    /\ h_win.calls < MaxCalls
    /\ \E key \in WindowKeyInputs, t \in WindowTimeInputs :
         /\ IF key \notin DOMAIN win_buckets
            THEN UNCHANGED <<win_buckets, win_log>>
            ELSE /\ win_buckets' =
                       [win_buckets EXCEPT ![key] =
                          prune_bucket(Append(@, t), t, ROLLING_WINDOW_SECONDS)]
                 /\ win_log' = [win_log EXCEPT ![key] = Append(@, t)]
         /\ h_win' = [op |-> "inc", key |-> key, time |-> t, result |-> 0,
                      ordered |-> win_ordered(t), calls |-> h_win.calls + 1]
    /\ UNCHANGED <<rvars, ovars, pvars, lvars, svars, xvars, tvars, fvars>>

\* HealthWindow.count15m(key, now)
WindowCount ==
    /\ h_win.calls < MaxCalls
    /\ \E key \in WindowKeyInputs, t \in WindowTimeInputs :
         LET pruned == prune_bucket(win_buckets[key], t, ROLLING_WINDOW_SECONDS)
         IN  /\ IF key \notin DOMAIN win_buckets
                THEN UNCHANGED win_buckets
                ELSE win_buckets' = [win_buckets EXCEPT ![key] = pruned]
             /\ h_win' = [h_win EXCEPT
                            !.op = "count15m", !.key = key, !.time = t,
                            !.result = IF key \notin DOMAIN win_buckets
                                       THEN 0 ELSE Len(pruned),
                            !.ordered = win_ordered(t), !.calls = @ + 1]
    /\ UNCHANGED <<win_log, rvars, ovars, pvars, lvars, svars, xvars, tvars, fvars>>

WNext == WindowInc \/ WindowCount

-----------------------------------------------------------------------------
\* Part VII: atr_exit_reason (bot/trading/exits.py) on drawn arguments.
\* Prices and ATR count tenths; multipliers are kept doubled as in Part III.

\* the fields of PositionState the function reads, around an entry at 100.0
ExitStates ==
    [direction : {"long", "short", None}, entry_price : {1000},
     peak_price : {1000, 1040}, low_price : {1000, 960}]

ExitPrices == {960, 970, 981, 1000, 1019, 1025, 1030, 1040, 1070}

ExitAtrs == {0 - 20, 0, 20}

\* sl_atr_mult, tp_atr_mult, trail_atr_mult (doubled) and trail_start_r:
\* the defaults 1.5, 3.5, 1.5 and 1.0, a trail of 1.0, and zeros
ExitConfigs ==
    [sl_atr_mult2 : {0, 3}, tp_atr_mult2 : {0, 7}, trail_atr_mult2 : {0, 2, 3},
     trail_start_r : {1}]

ExitInputs ==
    [state : ExitStates, price : ExitPrices, atr : ExitAtrs, cfg : ExitConfigs]

XInit ==
    /\ x_in \in {<<a>> : a \in ExitInputs}
    /\ x_res = <<>>

XFrozen ==
    /\ x_in = <<>>
    /\ x_res = <<>>

\* one atr_exit_reason call on the drawn arguments
ApplyExitReason ==
    /\ x_in # <<>>
    /\ x_res = <<>>
    /\ LET a == x_in[1]
       IN  x_res' = <<atr_exit_reason(a.state, a.price, a.atr, a.cfg)>>
    /\ UNCHANGED <<x_in, rvars, ovars, pvars, lvars, svars, wvars, tvars, fvars>>

XNext == ApplyExitReason

-----------------------------------------------------------------------------
\* Part VIII: a held position over manage_open_position ticks, prices and
\* ATR in tenths (scenario S4: entry 100.0, atr 2.0, sl 1.5, trail 1.0,
\* trail_start_r 1).

MaxTrailTicks == 4

\* pyramiding as the strategy configuration may set it: off (the default),
\* or on with a step of 1 % and up to 0, 1 or 2 levels
PyramidConfigs ==
    {[pyramiding_enabled |-> FALSE, max_pyramid_levels |-> 0]}
       \cup {[pyramiding_enabled |-> TRUE, max_pyramid_levels |-> n] :
                n \in {0, 1, 2}}

\* the strategy configuration of the scenario, and the default trail of 1.5
TrailContexts ==
    {[BotContext(FALSE, "paper", 2) EXCEPT
        !.strategy_config.trail_atr_mult2 = t,
        !.strategy_config.pyramiding_enabled = y.pyramiding_enabled,
        !.strategy_config.max_pyramid_levels = y.max_pyramid_levels] :
        t \in {2, 3}, y \in PyramidConfigs}

\* STATE as an entry at 100.0 leaves it (balance 100: notional 50, qty 0.5)
TrailHeldState(direction) ==
    [FreshState EXCEPT !.in_position = TRUE, !.position_id = "pos",
                       !.direction = direction, !.entry_price = 1000,
                       !.entry_time = 1, !.qty = 5000, !.base_notional = 50,
                       !.peak_price = 1000, !.low_price = 1000,
                       !.week_trade_counts = [w \in {week_key(1)} |-> 1],
                       !.last_candle_time = 1]

TrailAtr == 20

\* prices fetch_last_price may answer on a tick
TrailPrices == {960, 981, 1000, 1010, 1019, 1025, 1030, 1040, 1070}

NoTrail ==
    [ticks |-> 0, activated |-> FALSE, extreme |-> 1000, price |-> 1000,
     reason |-> None, past_guard |-> FALSE]

TInit ==
    /\ ctx \in TrailContexts
    /\ POSITION_STATE \in {TrailHeldState("long"), TrailHeldState("short")}
    /\ exch_positions = 1
    /\ last_op = "none"
    /\ h_try = NoTry
    /\ h_manage = NoManage
    /\ h_trail = NoTrail
    /\ y_res = <<>>

TFrozen ==
    /\ h_trail = NoTrail
    /\ y_res = <<>>

\* the favourable move of price p for a position in state S
favourable_move(S, p) ==
    IF S.direction = "long" THEN p - S.entry_price ELSE S.entry_price - p

\* one loop tick in IN_POSITION: manage_open_position(ctx, strategy) with the
\* last price p; h_trail follows the favourable extreme since the entry and
\* whether a favourable move of trail_start_r * sl_atr_mult * atr was seen
ManageTrail ==
    /\ h_trail.ticks < MaxTrailTicks
    /\ h_manage.outcome \in {"none", "held"}
    /\ \E p \in TrailPrices :
         LET i == [ManageDefault EXCEPT !.price = p, !.atr = TrailAtr,
                                        !.close = p]
             S == POSITION_STATE
             cfg == ctx.strategy_config
             r == manage_open_position(S, ctx, i)
             reason == atr_exit_reason(
                          manage_update_gauges(S, ctx, p, TrailAtr),
                          p, TrailAtr, cfg).reason
         IN  /\ POSITION_STATE' = r.state
             /\ h_manage' = r.h
             /\ exch_positions' =
                   IF r.h.at_exchange THEN Max(0, exch_positions - 1)
                   ELSE exch_positions
             /\ h_trail' =
                   [ticks |-> h_trail.ticks + 1,
                    activated |->
                       h_trail.activated
                          \/ 2 * favourable_move(S, p)
                                >= cfg.trail_start_r * cfg.sl_atr_mult2 * TrailAtr,
                    extreme |->
                       IF S.direction = "long" THEN Max(h_trail.extreme, p)
                       ELSE Min(h_trail.extreme, p),
                    price |-> p,
                    reason |-> IF S.in_position THEN reason ELSE None,
                    past_guard |-> S.in_position]
    /\ last_op' = "manage_open_position"
    /\ UNCHANGED <<ctx, h_try, y_res, rvars, ovars, lvars, svars, wvars, xvars, fvars>>

\* move = num / 1000 and added_levels a maybe_pyramid call may be given
PyramidMoves == {0 - 10, 0, 9, 10, 19, 20, 30}
PyramidLevels == 0..3

\* one maybe_pyramid(ctx.strategy_config, move, added_levels) call on drawn
\* arguments
ApplyMaybePyramid ==
    /\ \E num \in PyramidMoves, n \in PyramidLevels :
         y_res' = <<[num |-> num, den |-> 1000, added_levels |-> n,
                     result |-> maybe_pyramid(ctx.strategy_config, num, 1000, n)]>>
    /\ UNCHANGED <<pvars, h_trail, rvars, ovars, lvars, svars, wvars, xvars, fvars>>

TNext == ManageTrail \/ ApplyMaybePyramid

\* prices and ATR values (tenths) of the ticks of a trailing position: the
\* ATR of the last closed candle may differ from one tick to the next
RatchetPrices == {931, 932, 1000, 1068, 1069}
RatchetAtrs == {20, 22}

\* one loop tick in IN_POSITION: manage_open_position(ctx, strategy) with
\* the last price p and the ATR a of the tick
ManageRatchet ==
    /\ h_trail.ticks < MaxTrailTicks
    /\ h_manage.outcome \in {"none", "held"}
    /\ \E p \in RatchetPrices, a \in RatchetAtrs :
         LET i == [ManageDefault EXCEPT !.price = p, !.atr = a, !.close = p]
             S == POSITION_STATE
             cfg == ctx.strategy_config
             r == manage_open_position(S, ctx, i)
         IN  /\ POSITION_STATE' = r.state
             /\ h_manage' = r.h
             /\ exch_positions' =
                   IF r.h.at_exchange THEN Max(0, exch_positions - 1)
                   ELSE exch_positions
             /\ h_trail' =
                   [h_trail EXCEPT
                      !.ticks = @ + 1,
                      !.activated =
                         @ \/ 2 * favourable_move(S, p)
                                 >= cfg.trail_start_r * cfg.sl_atr_mult2 * a,
                      !.extreme = IF S.direction = "long" THEN Max(@, p)
                                  ELSE Min(@, p),
                      !.price = p,
                      !.past_guard = S.in_position]
    /\ last_op' = "manage_open_position"
    /\ UNCHANGED <<ctx, h_try, y_res, rvars, ovars, lvars, svars, wvars, xvars, fvars>>

\* C35: while the position stays open and trailing is active before and
\* after a manage_open_position tick, the trailing stop of a long never
\* decreases over the tick and that of a short never increases, whatever the
\* prices and ATR values of the ticks
C35_Trailing(S) == S.in_position /\ S.trailing_active

C35_Step ==
    (C35_Trailing(POSITION_STATE) /\ C35_Trailing(POSITION_STATE'))
       => /\ POSITION_STATE.direction = "long"
             => POSITION_STATE'.trailing_stop_price
                   >= POSITION_STATE.trailing_stop_price
          /\ POSITION_STATE.direction = "short"
             => POSITION_STATE'.trailing_stop_price
                   <= POSITION_STATE.trailing_stop_price

C35_TrailRatchets == [][C35_Step]_vars

(***************************************************************************)
(* Part IX.  ExchangeSyncService (bot/services/exchange_sync.py)           *)
(*                                                                         *)
(* One _run_sync on a drawn local row and drawn answers of the exchange    *)
(* provider and of the database.  CcxtExchangeProvider swallows the        *)
(* exchange errors of fetch_position_for_symbol (None) and of              *)
(* fetch_closed_pnl_since (not confirmed); fetch_order_by_id raises.  The  *)
(* database writers set_exchange_sync_status, update_position_from_exchange*)
(* and close_position record a db error and raise again.                   *)
(***************************************************************************)
REQUIRED_FIELDS ==
    {"symbol", "entry_exchange_order_id", "entry_client_order_id",
     "position_side", "direction"}

\* the identity fields the row holds with a non-empty value: all of them,
\* all but one, or none
RowFieldInputs ==
    {REQUIRED_FIELDS, {}} \cup {REQUIRED_FIELDS \ {f} : f \in REQUIRED_FIELDS}

\* row: get_open_position found a row; lookup_ok: fetch_order_by_id did not
\* raise; live: fetch_position_for_symbol answered a position;
\* confirmed_closed: the answer of fetch_closed_pnl_since; status_ok / write_ok:
\* the bot_state update / the bot_positions update did not raise
RunSyncInputs ==
    [row : BOOLEAN, fields : RowFieldInputs, lookup_ok : BOOLEAN,
     live : BOOLEAN, confirmed_closed : BOOLEAN, status_ok : BOOLEAN,
     write_ok : BOOLEAN]

\* how a run ended ("returned", "ExchangeSyncError", or "Exception" for any
\* other exception), the sync statuses written, and the write to the row
SyncResult(outcome, marks, row_write) ==
    [outcome |-> outcome, marks |-> marks, row_write |-> row_write]

\* set_exchange_sync_status(status) followed by raise ExchangeSyncError
mark_and_raise(i, status) ==
    IF i.status_ok THEN SyncResult("ExchangeSyncError", <<status>>, "none")
    ELSE SyncResult("Exception", <<>>, "none")

\* a write to the position row followed by set_exchange_sync_status("ok")
write_and_mark_ok(i, write) ==
    IF ~i.write_ok THEN SyncResult("Exception", <<>>, "none")
    ELSE IF ~i.status_ok THEN SyncResult("Exception", <<>>, write)
    ELSE SyncResult("returned", <<"ok">>, write)

sync_open_position(i) ==
    IF i.fields # REQUIRED_FIELDS THEN mark_and_raise(i, "mismatch")
    ELSE IF ~i.lookup_ok THEN mark_and_raise(i, "mismatch")
    ELSE IF i.live THEN write_and_mark_ok(i, "upsert")
    ELSE IF i.confirmed_closed THEN write_and_mark_ok(i, "close")
    ELSE mark_and_raise(i, "missing")

run_sync(i) ==
    IF ~i.row THEN SyncResult("returned", <<>>, "none")
    ELSE sync_open_position(i)

KInit ==
    /\ k_in \in {<<i>> : i \in RunSyncInputs}
    /\ k_res = <<>>

KFrozen ==
    /\ k_in = <<>>
    /\ k_res = <<>>

\* startup_sync, or a maybe_sync call that is due
ApplyRunSync ==
    /\ k_in # <<>>
    /\ k_res = <<>>
    /\ k_res' = <<run_sync(k_in[1])>>
    /\ UNCHANGED <<k_in, nvars, rvars, ovars, pvars, lvars, svars, wvars, xvars,
                   tvars, gvars>>

KNext == ApplyRunSync

(***************************************************************************)
(* Part X.  normalize_configs (bot/core/config.py)                         *)
(*                                                                         *)
(* A raw config value is a missing key, None, a value neither int() nor    *)
(* float() accepts ("junk"), a NaN (the float, or a string such as "nan",  *)
(* which float() accepts and int() rejects), or a number, held in          *)
(* hundredths.  Results of _i are whole numbers; results of _f are floats  *)
(* in hundredths, possibly NaN.                                            *)
(***************************************************************************)
\* bot.core.safety, whose values the repository does not hold
MAX_LOOKBACK_BARS == 2000

MAX_LEVERAGE == 5

\* in hundredths
MAX_ALLOCATION_FRAC == 80

MAX_TRADES_PER_WEEK == 50

MAX_PYRAMID_LEVELS == 3

MIN_NOTIONAL_USD == 10

MAX_SLIPPAGE_BPS == 100

\* how often the controls are re-read in one run of the model
MaxReloads == 2

Raw(k, v) == [k |-> k, v |-> v]

\* numbers tried, in hundredths: negative, zero, 0.03, 1.5, 29, 2500
RawNumbers == {0 - 150, 0, 3, 150, 2900, 250000}

RawValues ==
    {Raw("absent", 0), Raw("none", 0), Raw("junk", 0), Raw("nan", 0)}
        \cup {Raw("num", n) : n \in RawNumbers}

\* a float: NaN, or v hundredths
Float(v) == [nan |-> FALSE, v |-> v]

NaN == [nan |-> TRUE, v |-> 0]

\* int(x) of a number: truncation toward zero
py_int(v) == IF v >= 0 THEN v \div 100 ELSE 0 - ((0 - v) \div 100)

\* _i(cfg.get(key, d), d)
conv_i(raw, d) == IF raw.k = "num" THEN py_int(raw.v) ELSE d

\* _f(cfg.get(key, d), d), d in whole units
conv_f(raw, d) ==
    IF raw.k = "num" THEN Float(raw.v)
    ELSE IF raw.k = "nan" THEN NaN
    ELSE Float(d * 100)

\* _f(cfg.get(key, 0.5), 0.5)
conv_f_half(raw) ==
    IF raw.k = "num" THEN Float(raw.v)
    ELSE IF raw.k = "nan" THEN NaN
    ELSE Float(50)

\* a < b on floats: false whenever a NaN is compared
py_lt(a, b) == ~a.nan /\ ~b.nan /\ a.v < b.v

\* max(a, b) and min(a, b) of Python: the first argument unless the second
\* is strictly greater (smaller)
py_max(a, b) == IF py_lt(a, b) THEN b ELSE a

py_min(a, b) == IF py_lt(b, a) THEN b ELSE a

\* _clamp(x, lo, hi) = max(lo, min(hi, x))
clamp(x, lo, hi) == py_max(lo, py_min(hi, x))

\* bool(cc.get(key, d))
conv_bool(raw, d) ==
    IF raw.k = "absent" THEN d
    ELSE IF raw.k = "none" THEN FALSE
    ELSE IF raw.k = "num" THEN raw.v # 0
    ELSE TRUE

\* normalize_configs(strategy_cfg, risk_cfg, exec_cfg, control_cfg): every key
\* of a bundle holds that bundle's raw value
normalize_configs(sc, rc, ec, cc) ==
    [execution_config |->
        [poll_interval |-> Max(conv_i(ec, 300), MIN_POLL_SECONDS),
         lookback_bars |-> Min(conv_i(ec, 700), MAX_LOOKBACK_BARS),
         max_slippage_bps |-> Min(conv_i(ec, 20), MAX_SLIPPAGE_BPS)],
     risk_config |->
        [leverage |-> clamp(conv_f(rc, 3), Float(100),
                            Float(MAX_LEVERAGE * 100)),
         allocation_frac |-> clamp(conv_f_half(rc), Float(5),
                                   Float(MAX_ALLOCATION_FRAC)),
         max_trades_per_week |-> Min(conv_i(rc, 30), MAX_TRADES_PER_WEEK),
         min_notional_usd |-> py_max(conv_f(rc, 15),
                                     Float(MIN_NOTIONAL_USD * 100))],
     strategy_config |->
        [min_bars |-> conv_i(sc, 500),
         pyramiding_enabled |-> conv_bool(sc, FALSE),
         max_pyramid_levels |-> Min(conv_i(sc, 0), MAX_PYRAMID_LEVELS)],
     control_config |->
        [trading_enabled |-> conv_bool(cc, TRUE),
         kill_switch |-> conv_bool(cc, FALSE),
         admin_override |-> conv_bool(cc, FALSE)]]

\* raw values of the control switches: missing, None, 0 and 1
ControlRawValues ==
    {Raw("absent", 0), Raw("none", 0), Raw("num", 0), Raw("num", 100)}

NormalizeInputs ==
    [sc : RawValues, rc : RawValues, ec : RawValues, cc : ControlRawValues]

NInit ==
    /\ n_in \in {<<i>> : i \in NormalizeInputs}
    /\ n_res = <<>>

NFrozen ==
    /\ n_in = <<>>
    /\ n_res = <<>>

\* load_context: the four bundles of the context are the normalized ones
ApplyNormalize ==
    /\ n_in # <<>>
    /\ n_res = <<>>
    /\ LET i == n_in[1]
       IN  n_res' = <<[cfg |-> normalize_configs(i.sc, i.rc, i.ec, i.cc),
                      reloads |-> 0]>>
    /\ UNCHANGED <<n_in, kvars, rvars, ovars, pvars, lvars, svars, wvars, xvars,
                   tvars, gvars>>

\* the periodic control refresh of run_loop: the control bundle alone is
\* normalized again and replaced, unless refresh_controls raised or
\* returned nothing
HotReload ==
    /\ n_res # <<>>
    /\ n_res[1].reloads < MaxReloads
    /\ \E ok \in BOOLEAN, raw \in ControlRawValues :
         LET cur == n_res[1].cfg
             cc == normalize_configs(Raw("absent", 0), Raw("absent", 0),
                                     Raw("absent", 0), raw).control_config
         IN  n_res' = <<[cfg |-> IF ok
                                 THEN [cur EXCEPT !.control_config = cc]
                                 ELSE cur,
                        reloads |-> n_res[1].reloads + 1]>>
    /\ UNCHANGED <<n_in, kvars, rvars, ovars, pvars, lvars, svars, wvars, xvars,
                   tvars, gvars>>

NNext == ApplyNormalize \/ HotReload

(***************************************************************************)
(* Part XI.  bootstrap.start (bot/runtime/bootstrap.py)                    *)
(*                                                                         *)
(* start() as the sequence of its calls.  Every call but the two checks    *)
(* may raise; an exception anywhere inside the try block ends start() in   *)
(* the except handler.                                                     *)
(***************************************************************************)
BootSteps ==
    <<"load_context", "init_reporter", "start_health_flush_loop",
      "exchange_client", "startup_sync", "start_position_sync_loop",
      "persist_starting", "subscription_check", "startup_gate",
      "assert_connectivity", "mark_auth_ok", "announce_running", "run_loop">>

\* the context load_context returns: subscription_status and control_config
BootContexts ==
    [subscription_status : {"active", "past_due"}, admin_override : BOOLEAN,
     kill_switch : BOOLEAN, trading_enabled : BOOLEAN]

\* a startup_gate that does not look at the kill switch
startup_gate_no_kill_switch(c) ==
    IF c.subscription_status # "active"
    THEN [ok |-> FALSE, reason |-> "subscription_not_active"]
    ELSE IF c.admin_override THEN [ok |-> FALSE, reason |-> "admin_override"]
    ELSE IF ~c.trading_enabled THEN [ok |-> FALSE, reason |-> "trading_disabled"]
    ELSE [ok |-> TRUE, reason |-> "ok"]

\* startup_gate
startup_gate(c) ==
    IF c.subscription_status # "active"
    THEN [ok |-> FALSE, reason |-> "subscription_not_active"]
    ELSE IF c.admin_override THEN [ok |-> FALSE, reason |-> "admin_override"]
    ELSE IF c.kill_switch THEN [ok |-> FALSE, reason |-> "kill_switch"]
    ELSE IF ~c.trading_enabled THEN [ok |-> FALSE, reason |-> "trading_disabled"]
    ELSE [ok |-> TRUE, reason |-> "ok"]

\* texts of the exceptions _assert_connectivity raises: its own RuntimeError
\* messages, and what write_event / notify at its end may raise
ProbeTexts ==
    {<<"could", "not", "decrypt", "api", "credentials">>,
     <<"could", "not", "fetch", "ticker", "for", "#">>,
     <<"rate", "limit", "exceeded">>}

\* pc: the index in BootSteps of the next call; outcome: "starting" inside
\* start(), "running" once run_loop is called, "blocked" after a return
\* from a check, "failed" after the except handler; auth: the reporter's
\* exchange_auth_ok gauge and last_auth_error_code
NoBoot ==
    [pc |-> 1, done |-> <<>>, outcome |-> "starting", failed_at |-> None,
     text |-> <<>>, auth_ok |-> None, auth_code |-> None]

BInit ==
    /\ b_ctx \in BootContexts
    /\ boot = NoBoot

BFrozen ==
    /\ b_ctx = [subscription_status |-> "active", admin_override |-> FALSE,
                kill_switch |-> FALSE, trading_enabled |-> TRUE]
    /\ boot = NoBoot

\* the next call of start(); ok = FALSE is the call raising text
BootStep ==
    /\ boot.outcome = "starting"
    /\ \E ok \in BOOLEAN, text \in ProbeTexts :
         LET step == BootSteps[boot.pc]
             advanced == [boot EXCEPT !.pc = @ + 1, !.done = Append(@, step)]
             raised == [boot EXCEPT !.outcome = "failed", !.failed_at = step,
                                    !.text = text]
         IN  boot' =
               IF step = "subscription_check"
               THEN IF b_ctx.subscription_status # "active"
                    THEN [boot EXCEPT !.outcome = "blocked", !.failed_at = step]
                    ELSE advanced
               ELSE IF step = "startup_gate"
               THEN IF ~startup_gate(b_ctx).ok
                    THEN [boot EXCEPT !.outcome = "blocked", !.failed_at = step]
                    ELSE advanced
               ELSE IF step = "assert_connectivity" /\ ~ok
               THEN [raised EXCEPT !.auth_ok = FALSE,
                                   !.auth_code = map_exception_to_reason(text)]
               ELSE IF ~ok THEN raised
               ELSE IF step = "mark_auth_ok"
               THEN [advanced EXCEPT !.auth_ok = TRUE]
               ELSE IF step = "run_loop"
               THEN [advanced EXCEPT !.outcome = "running"]
               ELSE advanced
    /\ UNCHANGED <<b_ctx, rvars, ovars, pvars, lvars, svars, wvars, xvars, tvars,
                   kvars, nvars, cvars, yvars, zvars>>

BNext == BootStep

(***************************************************************************)
(* Part XII.  The control refresh of run_loop against the clock            *)
(*                                                                         *)
(* Lines 117-142 of loop.py with time.monotonic() explicit.  `since` is    *)
(* now - last_control_refresh as of the latest tick, in seconds, held only *)
(* up to CONTROL_REFRESH_SECONDS + 1 (line 132 compares it with the        *)
(* threshold and nothing else reads it).  Ticks start dt seconds apart; dt *)
(* is the scheduler's interval, whose floor bot.core.safety sets.          *)
(***************************************************************************)
RefreshDts == {2, 30, 61}

\* saturation of elapsed times and of the tick count kept as history
RefreshCap == CONTROL_REFRESH_SECONDS + 1

\* a refresh condition that looks at the clock alone
control_refresh_due_time_only(elapsed, polls) ==
    elapsed >= CONTROL_REFRESH_SECONDS

\* line 132
control_refresh_due(elapsed, polls) ==
    elapsed >= CONTROL_REFRESH_SECONDS \/ polls >= CONTROL_REFRESH_POLLS

NoRefreshTick ==
    [op |-> "init", counted |-> FALSE, attempted |-> FALSE, failed |-> FALSE,
     t_at |-> 0, n_at |-> 0, t_since |-> 0, n_since |-> 0,
     controls_before |-> <<>>]

\* run_loop before its first tick: last_control_refresh = 0.0, so `since` is
\* the host's monotonic clock, below or above the threshold.  The history
\* h_rf keeps, by its own count, the time and the counted ticks since the
\* latest attempt (t_since, n_since) and their values when the latest tick
\* decided (t_at, n_at).
CInit ==
    /\ rf \in [since : {0, RefreshCap}, polls : {0},
                controls : {[subscription_status |-> "active",
                             trading_enabled |-> TRUE, kill_switch |-> FALSE,
                             pause_requested |-> FALSE]},
                halted : {FALSE}, exit : {"running"}]
    /\ h_rf = [NoRefreshTick EXCEPT !.t_since = rf.since]

CFrozen ==
    /\ rf = [since |-> 0, polls |-> 0,
             controls |-> [subscription_status |-> "active",
                           trading_enabled |-> TRUE, kill_switch |-> FALSE,
                           pause_requested |-> FALSE],
             halted |-> FALSE, exit |-> "running"]
    /\ h_rf = NoRefreshTick

\* one pass of the while loop: sync = "error" is maybe_sync raising before
\* the tick is counted, r the answer of refresh_controls, handler_raises an
\* exception from the state dispatch; either exception sets state = HALT,
\* which ends the run at line 146 of the next pass
RefreshTick ==
    /\ rf.exit = "running"
    /\ \E dt \in RefreshDts, sync \in {"ok", "error"}, r \in RefreshInputs,
          handler_raises \in BOOLEAN :
         LET elapsed == Min(rf.since + dt, RefreshCap)
             polls1 == rf.polls + 1
             due == control_refresh_due(elapsed, polls1)
             c1 == IF due THEN refreshed_controls(rf.controls, r)
                   ELSE rf.controls
             n1 == Min(h_rf.n_since + 1, CONTROL_REFRESH_POLLS + 1)
             t1 == Min(h_rf.t_since + dt, RefreshCap)
         IN  IF sync = "error"
             THEN /\ rf' = [rf EXCEPT !.since = elapsed, !.halted = TRUE]
                  /\ h_rf' = [op |-> "tick", counted |-> FALSE,
                              attempted |-> FALSE, failed |-> FALSE,
                              t_at |-> t1, n_at |-> h_rf.n_since,
                              t_since |-> t1, n_since |-> h_rf.n_since,
                              controls_before |-> <<rf.controls>>]
             ELSE /\ rf' = [since |-> IF due THEN 0 ELSE elapsed,
                            polls |-> IF due THEN 0 ELSE polls1,
                            controls |-> c1,
                            halted |-> rf.halted \/ handler_raises,
                            exit |-> IF due /\ c1.subscription_status # "active"
                                     THEN "stopped_payment"
                                     ELSE IF rf.halted THEN "halt"
                                     ELSE "running"]
                  /\ h_rf' = [op |-> "tick", counted |-> TRUE,
                              attempted |-> due, failed |-> due /\ ~r.ok,
                              t_at |-> t1, n_at |-> n1,
                              t_since |-> IF due THEN 0 ELSE t1,
                              n_since |-> IF due THEN 0 ELSE n1,
                              controls_before |-> <<rf.controls>>]
    /\ UNCHANGED <<bvars, rvars, ovars, pvars, lvars, svars, wvars, xvars, tvars,
                   kvars, nvars, yvars, zvars>>

CNext == RefreshTick

(***************************************************************************)
(* Part XIII.  The cadence of ExchangeSyncService.maybe_sync               *)
(*                                                                         *)
(* A timeframe is None or empty (kind "none"), a number with a unit letter *)
(* ("3m" is Timeframe("num", 3, "m")), or a text float() rejects ("junk"). *)
(* Times are whole seconds.                                                *)
(***************************************************************************)
MaxSyncCalls == 4

UNIT_MULTIPLIERS == [m |-> 60, h |-> 3600, d |-> 86400, w |-> 604800]

Timeframe(kind, value, unit) == [kind |-> kind, value |-> value, unit |-> unit]

TimeframeInputs ==
    {Timeframe("none", 0, ""), Timeframe("junk", 0, "m"),
     Timeframe("num", 5, "x"), Timeframe("num", 1, "h")}
        \cup {Timeframe("num", v, "m") : v \in {1, 3, 4, 5, 15}}

\* timeframe_to_seconds
timeframe_to_seconds(tf) ==
    IF tf.kind # "num" THEN 60
    ELSE tf.value * (IF tf.unit \in DOMAIN UNIT_MULTIPLIERS
                     THEN UNIT_MULTIPLIERS[tf.unit] ELSE 60)

\* ExchangeSyncService._compute_interval
compute_interval(timeframe) ==
    LET tf_sec == timeframe_to_seconds(timeframe)
    IN  IF tf_sec >= 300 THEN Min(tf_sec * 2, 600) ELSE 300

\* seconds between two maybe_sync calls: the loop's poll interval
SyncDts == {30, 270, 300, 330}

NoSyncRun == [runs |-> 0, last_start |-> 0, gap |-> 0, ran |-> FALSE,
              raised |-> FALSE, calls |-> 0]

\* ExchangeSyncService.__init__; the clock is time.monotonic()
YInit ==
    /\ \E tf \in TimeframeInputs, c0 \in {0, 1000} :
         sy = [timeframe |-> tf, interval |-> compute_interval(tf),
               next_sync_at |-> 0, clock |-> c0]
    /\ h_sy = NoSyncRun

YFrozen ==
    /\ sy = [timeframe |-> Timeframe("none", 0, ""),
             interval |-> compute_interval(Timeframe("none", 0, "")),
             next_sync_at |-> 0, clock |-> 0]
    /\ h_sy = NoSyncRun

\* maybe_sync at the top of a tick, dt seconds after the previous call (the
\* first call at the clock of the loop's start); raised: _run_sync raises
MaybeSync ==
    /\ h_sy.calls < MaxSyncCalls
    /\ \E dt \in SyncDts, raised \in BOOLEAN :
         LET t == IF h_sy.calls = 0 THEN sy.clock ELSE sy.clock + dt
             due == ~(t < sy.next_sync_at)
         IN  /\ sy' = [sy EXCEPT !.clock = t,
                                 !.next_sync_at = IF due THEN t + sy.interval
                                                  ELSE @]
             /\ h_sy' = [runs |-> h_sy.runs + (IF due THEN 1 ELSE 0),
                         last_start |-> IF due THEN t ELSE h_sy.last_start,
                         gap |-> IF due /\ h_sy.runs > 0
                                 THEN t - h_sy.last_start ELSE h_sy.gap,
                         ran |-> due,
                         raised |-> due /\ raised,
                         calls |-> h_sy.calls + 1]
    /\ UNCHANGED <<bvars, cvars, rvars, ovars, pvars, lvars, svars, wvars, xvars,
                   tvars, kvars, nvars, zvars>>

YNext == MaybeSync

(***************************************************************************)
(* Part XIV.  map_exception_to_reason (bot/health/types.py)                *)
(*                                                                         *)
(* The function applied to drawn exceptions.  A message is a sequence of   *)
(* words in the case it was written in; str(exc).lower() lowers each word, *)
(* and `pattern in text` is text_contains on the lowered words.            *)
(***************************************************************************)
MaxWords == 3

\* words of a message, some of them written with capitals
MessageWords ==
    {"db", "DB", "timeout", "Timeout", "_", "position", "Position",
     "mismatch", "indicator", "rate", "limit", "failed"}

\* str.lower() on one word
lower_word(w) ==
    CASE w = "DB" -> "db"
      [] w = "Timeout" -> "timeout"
      [] w = "Position" -> "position"
      [] OTHER -> w

\* str(exc).lower()
str_lower(text) == [k \in DOMAIN text |-> lower_word(text[k])]

\* an exception argument: None, or a message of up to MaxWords words
Exc(is_none, text) == [is_none |-> is_none, text |-> text]

ExcInputs ==
    {Exc(TRUE, <<>>)}
       \cup {Exc(FALSE, t) :
               t \in UNION {[1..n -> MessageWords] : n \in 0..MaxWords}}

\* lines 32-39: None answers UNKNOWN_ERROR, a message is lowered and searched
reason_of(exc) ==
    IF exc.is_none THEN "UNKNOWN_ERROR"
    ELSE map_exception_to_reason(str_lower(exc.text))

MInit ==
    /\ m_in = <<>>
    /\ m_res = <<>>

MFrozen ==
    /\ m_in = <<>>
    /\ m_res = <<>>

\* one map_exception_to_reason(exc) call on a drawn argument
ApplyMapReason ==
    /\ m_res = <<>>
    /\ \E exc \in ExcInputs :
         /\ m_in' = <<exc>>
         /\ m_res' = <<reason_of(exc)>>
    /\ UNCHANGED <<rvars, ovars, pvars, lvars, svars, wvars, xvars, tvars,
                   kvars, nvars, bvars, cvars, yvars, dvars, qvars>>

MNext == ApplyMapReason

\* C36: the message of a call, lowered, gets the kind of every listed keyword
\* it contains -- with "db timeout" DB_TIMEOUT and with "position mismatch"
\* POSITION_MISMATCH -- and UNKNOWN_ERROR when it contains none
C36_Keyword(text, code) ==
    \E k \in 1..Len(REASON_PATTERNS) :
        /\ REASON_PATTERNS[k][2] = code
        /\ text_contains(text, REASON_PATTERNS[k][1])

C36_Classified ==
    (m_res # <<>> /\ ~m_in[1].is_none)
       => LET text == str_lower(m_in[1].text)
              code == m_res[1]
          IN  /\ \A k \in 1..Len(REASON_PATTERNS) :
                    text_contains(text, REASON_PATTERNS[k][1])
                       => code = REASON_PATTERNS[k][2]
              /\ text_contains(text, <<"db", "timeout">>) => code = "DB_TIMEOUT"
              /\ text_contains(text, <<"position", "mismatch">>)
                    => code = "POSITION_MISMATCH"
              /\ (\A k \in 1..Len(REASON_PATTERNS) :
                     ~text_contains(text, REASON_PATTERNS[k][1]))
                    => code = "UNKNOWN_ERROR"

(***************************************************************************)
(* Part XV.  Exchange sync and position management in one loop tick        *)
(*           (bot/runtime/loop.py 117-182, bot/services/exchange_sync.py)  *)
(*                                                                         *)
(* run_loop with a position held, its state IN_POSITION or IDLE: a tick    *)
(* calls exchange_sync.maybe_sync() and then, with STATE.in_position,      *)
(* manage_open_position.  The position may be closed at the exchange by    *)
(* someone else (a liquidation, a manual close); sync then finds no live   *)
(* position and, on a confirmed closure, closes the row of bot_positions.  *)
(***************************************************************************)
MaxSyncTicks == 3

NoClose ==
    [ticks |-> 0, run |-> "running", closed |-> FALSE, synced |-> "none",
     called |-> FALSE, order |-> FALSE]

DInit ==
    /\ db_row = TRUE
    /\ h_close = NoClose

DFrozen ==
    /\ db_row = TRUE
    /\ h_close = NoClose

\* the answers a due _run_sync may get: get_open_position finds the row the
\* table holds; the provider reports a live position only while the exchange
\* holds one, and a confirmed closure only when it holds none
SyncTickInputs ==
    {i \in RunSyncInputs :
        /\ i.row = db_row
        /\ i.fields \in {REQUIRED_FIELDS, {}}
        /\ i.live => exch_positions > 0
        /\ i.confirmed_closed => exch_positions = 0}

\* the position is closed at the exchange without the worker's doing
ExchangeCloses ==
    /\ h_close.run = "running"
    /\ exch_positions > 0
    /\ exch_positions' = 0
    /\ UNCHANGED <<ctx, POSITION_STATE, last_op, h_try, h_manage, dvars, mvars, qvars,
                   rvars, ovars, lvars, svars, wvars, xvars, tvars, kvars,
                   nvars, bvars, cvars, yvars>>

\* loop.py 117-182: maybe_sync (due or not), whose ExchangeSyncError or
\* other exception ends the tick before the state action, then the state
\* action manage_open_position on STATE as it stands
SyncTick ==
    /\ h_close.run = "running"
    /\ h_close.ticks < MaxSyncTicks
    /\ POSITION_STATE.in_position
    /\ \E due \in BOOLEAN :
       \E i \in (IF due THEN SyncTickInputs ELSE {CHOOSE j \in SyncTickInputs : TRUE}) :
       \E m \in ManageInputs :
         LET r == IF due THEN run_sync(i) ELSE SyncResult("returned", <<>>, "none")
             failed == r.outcome # "returned"
             S == POSITION_STATE
             g == manage_open_position(S, ctx, m)
             acted == ~failed /\ S.in_position
         IN  /\ db_row' = (db_row /\ r.row_write # "close")
             /\ POSITION_STATE' = IF acted THEN g.state ELSE S
             /\ h_manage' = IF acted THEN g.h ELSE h_manage
             /\ exch_positions' =
                   IF acted /\ g.h.at_exchange THEN Max(0, exch_positions - 1)
                   ELSE exch_positions
             /\ last_op' = IF acted THEN "manage_open_position" ELSE "none"
             /\ h_close' =
                   [ticks |-> h_close.ticks + 1,
                    run |-> IF failed \/ (acted /\ g.h.raised) THEN "stopped"
                            ELSE "running",
                    closed |-> h_close.closed
                                  \/ (r.outcome = "returned" /\ r.row_write = "close"),
                    synced |-> IF due THEN r.outcome ELSE "none",
                    called |-> acted,
                    order |-> acted /\ g.h.create_called]
    /\ UNCHANGED <<ctx, h_try, mvars, qvars, rvars, ovars, lvars, svars, wvars,
                   xvars, tvars, kvars, nvars, bvars, cvars, yvars>>

DNext == ExchangeCloses \/ SyncTick

\* C39: once sync has closed the open row on a closure the exchange
\* confirmed, the state action of that tick and of later ticks does not find
\* STATE in position: manage_open_position is not run past its guard and
\* hands no order to the exchange
C39_ClosedBySyncStaysClosed ==
    h_close.closed => (~h_close.called /\ ~h_close.order)

(***************************************************************************)
(* Part XVI.  The orders accepted for the current position                 *)
(*            (bot/trading/position.py, bot/trading/orders.py)             *)
(*                                                                         *)
(* The handlers of Part III with a count of what the exchange was asked    *)
(* for: h_net is the quantity of the entry order send_order returned, plus *)
(* that of the pyramid adds it returned, less that of the exit order it    *)
(* returned.                                                               *)
(***************************************************************************)
QInit == h_net = 0

QFrozen == h_net = 0

\* send_order returned an order to its caller
order_accepted(h) == h.sent /\ ~h.send.raised

\* one loop tick in WAITING_FOR_ENTRY: try_open_position(ctx, strategy)
NetTryOpen ==
    /\ exch_positions < MaxOpen
    /\ \E i \in (IF POSITION_STATE.in_position THEN {TryDefault} ELSE TryInputs) :
         LET r == try_open_position(POSITION_STATE, ctx, i)
             qty == compute_qty(
                       compute_notional(i.balance, ctx.risk_config.allocation_pct,
                                        ctx.risk_config.leverage),
                       i.close)
         IN  /\ POSITION_STATE' = r.state
             /\ h_try' = TryObserved(r.h, h_try)
             /\ exch_positions' = exch_positions + (IF r.h.at_exchange THEN 1 ELSE 0)
             /\ h_net' = IF order_accepted(r.h) THEN h_net + qty ELSE h_net
    /\ last_op' = "try_open_position"
    /\ UNCHANGED <<ctx, h_manage, mvars, dvars, rvars, ovars, lvars, svars, wvars,
                   xvars, tvars, kvars, nvars, bvars, cvars, yvars>>

\* one loop tick in IN_POSITION / IDLE: manage_open_position(ctx, strategy);
\* the exit order is for STATE.qty (line 131), and STATE.qty grows by add_qty
\* right after each pyramid order send_order returned (lines 180-192)
NetManage ==
    /\ \E i \in (IF POSITION_STATE.in_position THEN ManageInputs ELSE {ManageDefault}) :
         LET S == POSITION_STATE
             r == manage_open_position(S, ctx, i)
         IN  /\ POSITION_STATE' = r.state
             /\ h_manage' = r.h
             /\ exch_positions' =
                   IF r.h.at_exchange THEN Max(0, exch_positions - 1)
                   ELSE exch_positions
             /\ h_net' =
                   IF r.h.outcome \in {"exited", "exit_order_failed",
                                       "exit_journal_error"}
                   THEN IF order_accepted(r.h) THEN h_net - S.qty ELSE h_net
                   ELSE IF r.h.outcome \in {"held", "pyramid_order_failed",
                                            "pyramid_journal_error"}
                   THEN h_net + (r.state.qty - S.qty)
                   ELSE h_net
    /\ last_op' = "manage_open_position"
    /\ UNCHANGED <<ctx, h_try, mvars, dvars, rvars, ovars, lvars, svars, wvars,
                   xvars, tvars, kvars, nvars, bvars, cvars, yvars>>

QNext == NetTryOpen \/ NetManage

\* C40: after every tick STATE.qty is the net quantity of the orders
\* send_order returned for the current position (entry plus pyramid adds,
\* zero once the exit order was returned), also when a journal or
\* persistence call after the order raised
C40_QtyIsNet == POSITION_STATE.qty = h_net

ZFrozen == MFrozen /\ DFrozen /\ QFrozen



GFrozen == BFrozen /\ CFrozen /\ YFrozen /\ ZFrozen

FFrozen == KFrozen /\ NFrozen /\ GFrozen

\* the components added after the scheduler, untouched by the
\* specifications of Parts I-V
EFrozen == WFrozen /\ XFrozen /\ TFrozen /\ FFrozen

InitReporter == RInit /\ OFrozen /\ PFrozen /\ LFrozen /\ SFrozen /\ EFrozen

SpecReporter == InitReporter /\ [][RNext]_vars

InitPosition ==
    PInit /\ RFrozen /\ OFrozen /\ LFrozen /\ SFrozen /\ EFrozen

SpecPosition == InitPosition /\ [][PNext]_vars

OInit ==
    /\ o_in \in {<<a>> : a \in SendInputs}
    /\ o_res = <<>>

InitOrders == OInit /\ RFrozen /\ PFrozen /\ LFrozen /\ SFrozen /\ EFrozen

ONext == ApplySendOrder

SpecOrders == InitOrders /\ [][ONext]_vars

InitScheduler ==
    SInit /\ RFrozen /\ OFrozen /\ PFrozen /\ LFrozen /\ EFrozen

SpecScheduler == InitScheduler /\ [][SNext]_vars

InitLoop == LInit /\ PInit /\ RFrozen /\ OFrozen /\ SFrozen /\ EFrozen

SpecLoop == InitLoop /\ [][LNext]_vars

\* STATE with a position held, as lines 295-331 of try_open_position record
\* an entry at bar 1 (balance 100, close 100: notional 50, qty 0.5)
HeldState(direction) ==
    [FreshState EXCEPT !.in_position = TRUE, !.position_id = "pos",
                       !.direction = direction, !.entry_price = 100,
                       !.entry_time = 1, !.qty = 5000, !.base_notional = 50,
                       !.peak_price = 100, !.low_price = 100,
                       !.week_trade_counts = [w \in {week_key(1)} |-> 1],
                       !.last_candle_time = 1]

\* run_loop entered with a position held, the case its first tick provides
\* for at line 166 (state = IN_POSITION if POSITION_STATE.in_position)
InitLoopHeld ==
    /\ LInit
    /\ ctx \in ContextInputs
    /\ POSITION_STATE \in {HeldState("long"), HeldState("short")}
    /\ exch_positions = 1
    /\ last_op = "none"
    /\ h_try = NoTry
    /\ h_manage = NoManage
    /\ RFrozen /\ OFrozen /\ SFrozen /\ EFrozen

SpecLoopHeld == InitLoopHeld /\ [][LNext]_vars

\* live contexts whose strategy may pyramid
PyramidContexts ==
    {[BotContext(FALSE, "live", 2) EXCEPT
        !.strategy_config.pyramiding_enabled = y.pyramiding_enabled,
        !.strategy_config.max_pyramid_levels = y.max_pyramid_levels] :
        y \in PyramidConfigs}

\* run_loop entered with a position held by a strategy that may pyramid
InitLoopPyramid ==
    /\ LInit
    /\ ctx \in PyramidContexts
    /\ POSITION_STATE \in {HeldState("long"), HeldState("short")}
    /\ exch_positions = 1
    /\ last_op = "none"
    /\ h_try = NoTry
    /\ h_manage = NoManage
    /\ RFrozen /\ OFrozen /\ SFrozen /\ EFrozen

SpecLoopPyramid == InitLoopPyramid /\ [][LNext]_vars

InitWindow ==
    /\ WInit /\ RFrozen /\ OFrozen /\ PFrozen /\ LFrozen /\ SFrozen
    /\ XFrozen /\ TFrozen /\ FFrozen

InitExits ==
    /\ XInit /\ RFrozen /\ OFrozen /\ PFrozen /\ LFrozen /\ SFrozen
    /\ WFrozen /\ TFrozen /\ FFrozen

SpecExits == InitExits /\ [][XNext]_vars

InitTrail ==
    TInit /\ RFrozen /\ OFrozen /\ LFrozen /\ SFrozen /\ WFrozen /\ XFrozen
        /\ FFrozen

SpecTrail == InitTrail /\ [][TNext]_vars

SpecRatchet == InitTrail /\ [][ManageRatchet]_vars

InitNormalize ==
    /\ NInit /\ KFrozen /\ RFrozen /\ OFrozen /\ PFrozen /\ LFrozen /\ SFrozen
    /\ WFrozen /\ XFrozen /\ TFrozen /\ GFrozen

SpecNormalize == InitNormalize /\ [][NNext]_vars

InitBoot ==
    /\ BInit /\ KFrozen /\ NFrozen /\ RFrozen /\ OFrozen /\ PFrozen /\ LFrozen
    /\ SFrozen /\ WFrozen /\ XFrozen /\ TFrozen /\ CFrozen /\ YFrozen
    /\ ZFrozen

InitRefresh ==
    /\ CInit /\ KFrozen /\ NFrozen /\ RFrozen /\ OFrozen /\ PFrozen /\ LFrozen
    /\ SFrozen /\ WFrozen /\ XFrozen /\ TFrozen /\ BFrozen /\ YFrozen
    /\ ZFrozen

SpecRefresh == InitRefresh /\ [][CNext]_vars

InitSyncCadence ==
    /\ YInit /\ KFrozen /\ NFrozen /\ RFrozen /\ OFrozen /\ PFrozen /\ LFrozen
    /\ SFrozen /\ WFrozen /\ XFrozen /\ TFrozen /\ BFrozen /\ CFrozen
    /\ ZFrozen

SpecSyncCadence == InitSyncCadence /\ [][YNext]_vars

InitMapReason ==
    /\ MInit /\ KFrozen /\ NFrozen /\ RFrozen /\ OFrozen /\ PFrozen /\ LFrozen
    /\ SFrozen /\ WFrozen /\ XFrozen /\ TFrozen /\ BFrozen /\ CFrozen /\ YFrozen
    /\ DFrozen /\ QFrozen

SpecMapReason == InitMapReason /\ [][MNext]_vars

InitSyncTick ==
    /\ DInit
    /\ ctx \in ContextInputs
    /\ POSITION_STATE \in {HeldState("long"), HeldState("short")}
    /\ exch_positions = 1
    /\ last_op = "none"
    /\ h_try = NoTry
    /\ h_manage = NoManage
    /\ MFrozen /\ KFrozen /\ NFrozen /\ RFrozen /\ OFrozen /\ LFrozen
    /\ SFrozen /\ WFrozen /\ XFrozen /\ TFrozen /\ BFrozen /\ CFrozen /\ YFrozen
    /\ QFrozen

SpecSyncTick == InitSyncTick /\ [][DNext]_vars

InitNet ==
    /\ QInit /\ PInit
    /\ MFrozen /\ DFrozen /\ KFrozen /\ NFrozen /\ RFrozen /\ OFrozen /\ LFrozen
    /\ SFrozen /\ WFrozen /\ XFrozen /\ TFrozen /\ BFrozen /\ CFrozen /\ YFrozen

SpecNet == InitNet /\ [][QNext]_vars

SpecBoot == InitBoot /\ [][BNext]_vars

InitSync ==
    /\ KInit /\ NFrozen /\ RFrozen /\ OFrozen /\ PFrozen /\ LFrozen /\ SFrozen
    /\ WFrozen /\ XFrozen /\ TFrozen /\ GFrozen

SpecSync == InitSync /\ [][KNext]_vars

SpecWindow == InitWindow /\ [][WNext]_vars

(***************************************************************************)
(* Claims about the HealthReporter                                         *)
(***************************************************************************)

\* C1: after a successful flush at t = h_succ, a non-forced claim
\* (maybe_flush) is accepted no earlier than t + max(DEBOUNCE, interval of
\* the current tier and in-position flag) and a forced claim (flush_now) no
\* earlier than t + DEBOUNCE; a forced call inside the debounce window goes
\* to the scheduling section (no RPC) and leaves a schedule with its reason.
C1_Step ==
    /\ (pc["flush_loop"] = "idle" /\ pc'["flush_loop"] = "rpc" /\ h_succ >= 0)
          => now >= h_succ + Max(DEBOUNCE_SECONDS,
                                 get_flush_interval(tier, rep_in_position))
    /\ (pc["main"] = "flush_now" /\ pc'["main"] = "rpc" /\ h_succ >= 0)
          => now >= h_succ + DEBOUNCE_SECONDS
    /\ (pc["main"] = "flush_now" /\ pc'["main"] # "flush_now"
          /\ h_succ >= 0 /\ now < h_succ + DEBOUNCE_SECONDS)
          => pc'["main"] = "schedule"
    /\ (pc["main"] = "schedule" /\ pc'["main"] # "schedule")
          => /\ pc'["main"] = "idle"
             /\ scheduled_flush_ts' > now
             /\ scheduled_reason' = tok["main"].reason

C2_Step ==
    /\ flush_now_schedule
          => scheduled_flush_ts' = Max(last_flush_ts + DEBOUNCE_SECONDS,
                                       now + CRITICAL_DELAY_SECONDS)
    /\ (maybe_flush /\ scheduled_flush_ts # 0 /\ now >= scheduled_flush_ts)
          => /\ pc'["flush_loop"] = "rpc"
             /\ tok'["flush_loop"].reason = scheduled_reason
             /\ scheduled_flush_ts' = 0

C2_ScheduledFlushRuns == [][C2_Step]_vars

\* C3: a failed flush leaves pending_patch unchanged, and the next flush
\* that succeeds sends every key that was pending at the failure.
C3_Step ==
    \A t \in Threads :
        /\ execute_flush(t, FALSE) => pending_patch' = pending_patch
        /\ execute_flush(t, TRUE) => h_owed \subseteq DOMAIN tok[t].patch

C3_PatchDurability == [][C3_Step]_vars

\* C4: the flush loop and the trading thread are never both holding a
\* claimed patch inside the health RPC.
C4_NoConcurrentFlush == ~(pc["flush_loop"] = "rpc" /\ pc["main"] = "rpc")

(***************************************************************************)
(* Claims about the position manager                                       *)
(***************************************************************************)

\* C5: at every tick boundary, whatever calls of try_open_position and
\* manage_open_position came before and however they ended, in_position
\* implies qty > 0, entry_price > 0, a non-empty position_id and a direction
\* of long or short.
C5_InPositionWellFormed ==
    POSITION_STATE.in_position =>
        /\ POSITION_STATE.qty > 0
        /\ POSITION_STATE.entry_price > 0
        /\ POSITION_STATE.position_id # ""
        /\ POSITION_STATE.direction \in {"long", "short"}

\* C6: every call leaves a state in which not in_position implies qty = 0
\* and an empty direction, and a call that ends a position (an exit) carries
\* week_trade_counts and last_candle_time over, with the exit's
\* cumulative_pnl and last_exit_time.
C6_Step ==
    /\ ~POSITION_STATE'.in_position =>
          (POSITION_STATE'.qty = 0 /\ POSITION_STATE'.direction = "")
    /\ (POSITION_STATE.in_position /\ ~POSITION_STATE'.in_position) =>
          /\ POSITION_STATE'.week_trade_counts = POSITION_STATE.week_trade_counts
          /\ POSITION_STATE'.last_candle_time = POSITION_STATE.last_candle_time
          /\ POSITION_STATE'.last_exit_time # ""

C6_FlatStateClean == [][C6_Step]_vars

\* C7: the worker never has more than one position open at the exchange,
\* counting a position that was already open when the process booted.
C7_AtMostOnePosition == exch_positions <= 1

\* C8: a try_open_position call made while in_position does no exchange
\* call, sends no order and leaves the state as it was; so does a
\* manage_open_position call made while not in_position; hence no call of
\* try_open_position gets past its guard while a position is open.
C8_Step ==
    /\ (last_op' = "try_open_position" /\ POSITION_STATE.in_position) =>
          /\ h_try'.outcome = "in_position"
          /\ h_try'.exchange_calls = 0
          /\ ~h_try'.sent
          /\ UNCHANGED <<POSITION_STATE, exch_positions>>
    /\ (last_op' = "manage_open_position" /\ ~POSITION_STATE.in_position) =>
          /\ h_manage'.outcome = "not_in_position"
          /\ h_manage'.exchange_calls = 0
          /\ ~h_manage'.sent
          /\ UNCHANGED <<POSITION_STATE, exch_positions>>

C8_GuardedHandlers == [][C8_Step]_vars

C8_Witness ==
    /\ POSITION_STATE.in_position
    /\ last_op = "try_open_position"
    /\ h_try.outcome = "in_position"
    /\ h_manage.outcome = "not_in_position"

\* C9 as stated: of two try_open_position calls in a row whose frames end
\* on the same bar, the second evaluates no signal and sends no order,
\* whatever the first did.
C9_SecondCallIdle_AnyFirst ==
    h_try.same_bar => (~h_try.sent /\ ~h_try.signals)

\* C9, amended: of two try_open_position calls in a row whose frames end on
\* the same bar, the second evaluates no signal and sends no order provided
\* the first got past the min_bars check (and so recorded the bar).
C9_SecondCallIdle ==
    (h_try.same_bar /\ h_try.prev_recorded) =>
        (~h_try.sent /\ ~h_try.signals /\ ~h_try.create_called)

C9_Witness ==
    /\ h_try.same_bar
    /\ h_try.prev_recorded
    /\ h_try.outcome = "already_processed"
    /\ POSITION_STATE.direction \in {"long", "short"}

\* C12: week_trade_counts[week_key] never exceeds max_trades_per_week;
\* try_open_position submits no entry order for a bar whose week has
\* reached the cap; and every try_open_position call whose entry order was
\* submitted without error leaves that week's counter one higher.
C12_WeekCount(S, wk) ==
    IF wk \in DOMAIN S.week_trade_counts THEN S.week_trade_counts[wk] ELSE 0

C12_Step ==
    LET wk == week_key(h_try'.bar)
        called == last_op' = "try_open_position" /\ ~POSITION_STATE.in_position
    IN  /\ \A w \in DOMAIN POSITION_STATE'.week_trade_counts :
              POSITION_STATE'.week_trade_counts[w]
                  <= ctx.risk_config.max_trades_per_week
        /\ (called /\ h_try'.recorded
              /\ C12_WeekCount(POSITION_STATE, wk)
                    >= ctx.risk_config.max_trades_per_week)
              => ~h_try'.sent
        /\ (called /\ h_try'.sent /\ ~h_try'.send.raised)
              => C12_WeekCount(POSITION_STATE', wk)
                    = C12_WeekCount(POSITION_STATE, wk) + 1

C12_WeekCap == [][C12_Step]_vars

(***************************************************************************)
(* Claims about send_order                                                 *)
(***************************************************************************)

\* C10: a live send_order call (positive quantity, not dry-run) whose ticker
\* price differs from a positive expected price by more than
\* max_slippage_bps basis points never calls exchange.create_order, for
\* buying, selling and reduce-only orders alike.
C10_SlippageGuard ==
    (o_res # <<>>) =>
        LET a == o_in[1]
            live == live_price(a.ticker, a.expected_price)
        IN  (/\ ~a.dry_run
             /\ a.ticker.ok
             /\ a.expected_price > 0
             /\ Abs(live - a.expected_price) * 10000
                    > a.max_slippage_bps * a.expected_price)
            => ~o_res[1].create_called

C10_Witness ==
    /\ o_res # <<>>
    /\ ~o_in[1].dry_run
    /\ o_in[1].qty > 0
    /\ o_in[1].reduce_only
    /\ o_in[1].ticker.ok
    /\ o_in[1].ticker.last = 100
    /\ o_in[1].expected_price = 102
    /\ o_in[1].max_slippage_bps = 100
    /\ o_res[1].raised
    /\ ~o_res[1].create_called

(***************************************************************************)
(* Claims about run_loop                                                   *)
(***************************************************************************)

\* C11: in a run whose context has dry_run set or mode "paper", no tick
\* calls exchange.create_order, and every send_order call a handler makes
\* returns (None, client_order_id) after exactly one record_order_submit on
\* the reporter and without fetching the ticker.
C11_DryRunSendsNothing ==
    (ctx.dry_run \/ ctx.mode = "paper") =>
        \A h \in {h_try, h_manage} :
            /\ ~h.send.create_called
            /\ ~h.send.at_exchange
            /\ h.sent =>
                  /\ ~h.send.raised
                  /\ h.send.order = None
                  /\ h.send.client_order_id # ""
                  /\ h.send.reporter = <<"order_submit">>
                  /\ ~h.send.fetch_ticker

C11_Witness ==
    /\ ~ctx.dry_run
    /\ ctx.mode = "paper"
    /\ h_tick.called = "try_open_position"
    /\ h_tick.order_sent
    /\ h_try.sent
    /\ h_try.send.client_order_id = "cid"
    /\ h_try.send.reporter = <<"order_submit">>

\* C13: after a tick that raised an exception other than ExchangeSyncError
\* with fewer than MAX_CONSECUTIVE_ERRORS errors counted, the next tick does
\* not end the run for errors: unless the sync fails or the subscription
\* stops it, it goes on to the dispatch in IDLE, WAITING_FOR_ENTRY or
\* IN_POSITION; and the run ends for errors only with MAX_CONSECUTIVE_ERRORS
\* consecutive failed ticks counted.
C13_Step ==
    /\ (/\ loop_pc = "top"
        /\ loop_exit = "running"
        /\ h_tick.raised
        /\ consec_errors < MAX_CONSECUTIVE_ERRORS
        /\ h_tick' # h_tick)
          => /\ loop_exit' # "halt"
             /\ h_tick'.stage \in {"dispatch", "sync_fatal", "error",
                                   "stopped_payment"}
             /\ h_tick'.stage = "dispatch" =>
                   loop_state' \in {"IDLE", "WAITING_FOR_ENTRY", "IN_POSITION"}
    /\ (loop_exit = "running" /\ loop_exit' \in {"halt", "too_many_errors"})
          => consec_errors' >= MAX_CONSECUTIVE_ERRORS

C13_ErrorsAreRetried == [][C13_Step]_vars

\* C14: whenever run_loop has ended because of loop errors (through the
\* HALT state or through the too-many-errors branch), a `stopped` event was
\* written and fail_healthcheck was called earlier in that run.
C14_HaltIsSignalled ==
    loop_exit \in {"halt", "too_many_errors"} =>
        (h_run.stopped /\ h_run.fail_healthcheck)

\* C15: a tick in IN_POSITION whose manage_open_position call closes the
\* position (takes the exit branch and has its closing order accepted)
\* leaves the loop in COOLDOWN; a tick in COOLDOWN calls no handler and,
\* absent a pause, leaves the loop in WAITING_FOR_ENTRY.
C15_Step ==
    /\ (/\ loop_pc = "dispatch" /\ loop_pc' = "top"
        /\ loop_state = "IN_POSITION"
        /\ h_manage'.outcome \in {"exited", "exit_journal_error"})
          => loop_state' = "COOLDOWN"
    /\ (/\ loop_pc = "dispatch" /\ loop_pc' = "top"
        /\ loop_state = "COOLDOWN")
          => (h_tick'.called = "none" /\ loop_state' = "WAITING_FOR_ENTRY")

C15_ExitThenCooldown == [][C15_Step]_vars

\* C16: on a tick that reaches the pause check (lines 148-159) outside HALT
\* with a pause reason holding or trading_enabled false, the loop goes to
\* IDLE and the tick does not call try_open_position; the tick writes one
\* `paused` event when it entered IDLE from another state and none when it
\* was IDLE already or nothing pauses it; and apart from the except handler
\* the loop leaves IDLE only on a tick where nothing pauses it, to
\* IN_POSITION if a position is open and to WAITING_FOR_ENTRY otherwise.
C16_Paused(c) ==
    \/ c.subscription_status # "active"
    \/ c.kill_switch
    \/ ~c.trading_enabled
    \/ c.pause_requested

C16_IsPausedEvent(e) == e = "paused"

C16_Step ==
    LET start == loop_pc = "top" /\ loop_pc' = "dispatch"
        disp == loop_pc = "dispatch" /\ loop_pc' = "top"
        n_paused == Len(SelectSeq(h_tick'.events, C16_IsPausedEvent))
    IN  /\ start =>
              /\ loop_state # "HALT"
              /\ C16_Paused(controls') => loop_state' = "IDLE"
              /\ ~C16_Paused(controls') => loop_state' = loop_state
              /\ n_paused = IF C16_Paused(controls') /\ loop_state # "IDLE"
                            THEN 1 ELSE 0
        /\ disp =>
              /\ n_paused = Len(SelectSeq(h_tick.events, C16_IsPausedEvent))
              /\ C16_Paused(controls) =>
                    /\ loop_state = "IDLE"
                    /\ h_tick'.called # "try_open_position"
                    /\ ~h_tick'.raised => loop_state' = "IDLE"
        /\ (loop_state = "IDLE" /\ loop_state' # "IDLE") =>
              \/ h_tick'.raised
              \/ /\ disp
                 /\ ~C16_Paused(controls)
                 /\ loop_state' =
                       IF loop_in_position(POSITION_STATE', alias_rebound')
                       THEN "IN_POSITION" ELSE "WAITING_FOR_ENTRY"

C17_Step ==
    /\ (loop_pc = "top" /\ h_tick' # h_tick
          /\ h_tick'.sync = "ExchangeSyncError") =>
          /\ loop_exit' = "ExchangeSyncError"
          /\ consec_errors' = consec_errors
          /\ loop_state' = loop_state
          /\ loop_pc' = "top"
          /\ h_tick'.called = "none"
          /\ ~h_tick'.order_sent
          /\ ~h_tick'.raised
          /\ h_tick'.events = <<>>
          /\ UNCHANGED <<POSITION_STATE, h_try, h_manage, exch_positions,
                         controls, h_run>>
    /\ loop_exit = "ExchangeSyncError" => UNCHANGED vars

C17_SyncErrorPropagates == [][C17_Step]_vars

C17_Witness ==
    /\ loop_exit = "ExchangeSyncError"
    /\ h_tick.sync = "ExchangeSyncError"
    /\ h_tick.state_before = "WAITING_FOR_ENTRY"
    /\ consec_errors = 0
    /\ h_try.outcome = "no_signal"

\* C18: a tick whose control refresh leaves subscription_status other than
\* active writes a stopped_payment event and returns at once: no paused
\* event, no change of the loop state, no handler call, no order, and no
\* tick after it; and a run ends for an inactive subscription only on a
\* tick that made a refresh.
C18_Step ==
    /\ (loop_pc = "top" /\ h_tick' # h_tick /\ h_tick'.refreshed
          /\ controls'.subscription_status # "active") =>
          /\ loop_exit' = "stopped_payment"
          /\ h_tick'.events = <<"stopped_payment">>
          /\ h_tick'.called = "none"
          /\ ~h_tick'.order_sent
          /\ loop_state' = loop_state
          /\ loop_pc' = "top"
          /\ control_refresh_polls' = 0
          /\ UNCHANGED <<POSITION_STATE, h_try, h_manage, exch_positions,
                         consec_errors, h_run>>
    /\ (loop_exit = "running" /\ loop_exit' = "stopped_payment") =>
          /\ h_tick'.refreshed
          /\ controls.subscription_status = "active"
          /\ controls'.subscription_status # "active"
    /\ loop_exit = "stopped_payment" => UNCHANGED vars

C18_InactiveSubscriptionStops == [][C18_Step]_vars

C18_Witness ==
    /\ loop_exit = "stopped_payment"
    /\ controls.subscription_status # "active"
    /\ h_tick.refreshed
    /\ h_tick.state_before = "WAITING_FOR_ENTRY"
    /\ h_tick.events = <<"stopped_payment">>
    /\ h_tick.called = "none"

\* Claims about JitterScheduler

\* C19: for integer overrides next_interval returns no less than the
\* effective minimum max(min, MIN_POLL), the minimum it then holds; a
\* negative jitter counts as 0 (no draw is made and the interval is the
\* larger of base and minimum); and after a call given integer base, jitter and min the held base
\* is no less than the held minimum.
C19_Floor ==
    h_sched.op = "tick" =>
       /\ sch.min_seconds >= MIN_POLL_SECONDS
       /\ h_sched.min_override # <<>> =>
             sch.min_seconds = Max(h_sched.min_override[1], MIN_POLL_SECONDS)
       /\ h_sched.interval >= sch.min_seconds
       /\ sch.jitter >= 0
       /\ (h_sched.jitter_override # <<>> /\ h_sched.jitter_override[1] < 0) =>
             /\ sch.jitter = 0
             /\ h_sched.interval = Max(sch.min_seconds, sch.base)
       /\ (h_sched.base_override # <<>> /\ h_sched.jitter_override # <<>>
             /\ h_sched.min_override # <<>>) =>
             sch.base >= sch.min_seconds

C19_Witness ==
    /\ h_sched.op = "tick"
    /\ h_sched.base_override = <<10>>
    /\ h_sched.jitter_override = <<1>>
    /\ h_sched.min_override = <<40>>
    /\ h_sched.interval = 40
    /\ sch = [min_seconds |-> 40, base |-> 40, jitter |-> 1]

\* C20: over ticks that raise nothing, each tick start is at least the
\* effective minimum interval after the one before, so N ticks take at
\* least N times the minimum: sleep_for sleeps until started_at + interval
\* when the tick was shorter than the interval, and returns at once when
\* the tick overran, the tick after an overrun keeping its full interval.
C20_DriftFree ==
    h_sched.op = "tick" =>
       /\ clock - h_sched.started_at >= sch.min_seconds
       /\ clock - h_sched.started_at >= h_sched.interval
       /\ h_sched.tick_seconds < h_sched.interval =>
             /\ clock >= h_sched.started_at + h_sched.interval
             /\ clock <= h_sched.started_at + h_sched.interval + 1
       /\ h_sched.tick_seconds >= h_sched.interval =>
             clock = h_sched.started_at + h_sched.tick_seconds
       /\ clock - h_sched.t0 >= h_sched.n * sch.min_seconds

C20_Witness ==
    /\ h_sched.op = "tick"
    /\ h_sched.n = 2
    /\ h_sched.started_at - h_sched.t0 = 70
    /\ h_sched.tick_seconds = 29
    /\ h_sched.interval = sch.min_seconds
    /\ clock = h_sched.started_at + h_sched.interval

\* Claims about HealthWindow

\* C21 as stated: whatever the timestamps of the inc calls and whatever the
\* query time, count15m(key, now) is the number of recorded timestamps
\* t >= now - window, one exactly at the cutoff included.
C21_RecordedSince(key, t) ==
    IF key \notin DOMAIN win_log THEN 0
    ELSE Cardinality({i \in DOMAIN win_log[key] :
                         win_log[key][i] >= t - ROLLING_WINDOW_SECONDS})

C21_CountAnyOrder ==
    h_win.op = "count15m" =>
       h_win.result = C21_RecordedSince(h_win.key, h_win.time)

\* C21 amended: when no call (inc or count15m) was made with a time earlier
\* than the call before it, count15m(key, now) is the number of recorded
\* timestamps t >= now - window, one exactly at the cutoff included.
C21_CountInTimeOrder ==
    (h_win.op = "count15m" /\ h_win.ordered) =>
       h_win.result = C21_RecordedSince(h_win.key, h_win.time)

C21_Witness ==
    /\ h_win.op = "count15m"
    /\ h_win.ordered
    /\ h_win.key = "decision"
    /\ h_win.time = 1000
    /\ win_log["decision"] = <<0, 100>>
    /\ h_win.result = 1

\* Claims about atr_exit_reason

\* C22: atr_exit_reason returns null when atr <= 0 and otherwise the first
\* that applies of: SL_ATR (price against the entry by at least
\* sl_atr_mult * atr), TP_ATR (price in favour by at least
\* tp_atr_mult * atr), TRAIL_ATR (the trailing stop fired), null; for all
\* prices and all multipliers, zero included.
C22_Favour(a) ==
    IF a.state.direction = "long" THEN a.price - a.state.entry_price
    ELSE a.state.entry_price - a.price

C22_PriorityOrder ==
    x_res # <<>> =>
       LET a == x_in[1]
           reason == x_res[1].reason
           directed == a.state.direction \in {"long", "short"}
           stop == 2 * (0 - C22_Favour(a)) >= a.cfg.sl_atr_mult2 * a.atr
           take == 2 * C22_Favour(a) >= a.cfg.tp_atr_mult2 * a.atr
       IN  /\ reason \in {None, "SL_ATR", "TP_ATR", "TRAIL_ATR"}
           /\ a.atr <= 0 => reason = None
           /\ (a.atr > 0 /\ directed /\ stop) => reason = "SL_ATR"
           /\ (a.atr > 0 /\ directed /\ ~stop /\ take) => reason = "TP_ATR"
           /\ (a.atr > 0 /\ directed /\ ~stop /\ ~take) =>
                 reason \in {None, "TRAIL_ATR"}
           /\ ~directed => reason = None

\* C23: once a held position has seen a favourable move of at least
\* trail_start_r * sl_atr_mult * atr, a later tick whose price has come back
\* from the favourable extreme by at least trail_atr_mult * atr ends with
\* TRAIL_ATR (unless the stop-loss or the take-profit fires on it), also
\* when that price is below the activation threshold.
C23_Step ==
    LET cfg == ctx.strategy_config
        p == h_trail'.price
        back == IF POSITION_STATE.direction = "long"
                THEN h_trail'.extreme - p ELSE p - h_trail'.extreme
    IN  (h_trail'.ticks = h_trail.ticks + 1
           /\ h_trail.activated
           /\ h_trail'.past_guard
           /\ 2 * back >= cfg.trail_atr_mult2 * TrailAtr) =>
              h_trail'.reason \in {"TRAIL_ATR", "SL_ATR", "TP_ATR"}

C23_TrailFiresAfterActivation == [][C23_Step]_vars

\* C24: maybe_pyramid is true iff pyramiding is enabled, added_levels is
\* below max_pyramid_levels and move >= (added_levels + 1) * pyramid_step;
\* and on a manage_open_position tick that reaches the pyramiding loop, a
\* level is added iff pyramiding is enabled, added_levels is below
\* max_pyramid_levels and the favourable move is at least
\* (added_levels + 1) * pyramid_step; added_levels only grows, by one per
\* add-on order, and never exceeds max_pyramid_levels.
C24_Step ==
    LET S == POSITION_STATE
        cfg == ctx.strategy_config
        due == /\ cfg.pyramiding_enabled
               /\ S.added_levels < cfg.max_pyramid_levels
               /\ favourable_move(S, h_trail'.price) * 100
                     >= (S.added_levels + 1) * cfg.pyramid_step_pct * S.entry_price
        added == POSITION_STATE'.added_levels - S.added_levels
    IN  (h_trail'.ticks = h_trail.ticks + 1 /\ h_trail'.past_guard
           /\ h_trail'.reason = None) =>
           /\ (added >= 1) <=> due
           /\ added \in {0, 1}
           /\ (added = 1) <=> h_manage'.sent
           /\ added = 1 => POSITION_STATE'.qty > S.qty
           /\ POSITION_STATE'.added_levels <= cfg.max_pyramid_levels

C24_Call ==
    y_res' # <<>> =>
       LET a == y_res'[1]
           cfg == ctx.strategy_config
       IN  a.result <=>
              /\ cfg.pyramiding_enabled
              /\ a.added_levels < cfg.max_pyramid_levels
              /\ a.num * 100 >= (a.added_levels + 1) * cfg.pyramid_step_pct * a.den

C24_PyramidClamped == [][C24_Step /\ C24_Call]_vars

C24_Witness ==
    /\ ctx.strategy_config.pyramiding_enabled
    /\ ctx.strategy_config.max_pyramid_levels = 1
    /\ POSITION_STATE.in_position
    /\ POSITION_STATE.added_levels = 1
    /\ POSITION_STATE.qty > 5000
    /\ h_trail.reason = None
    /\ h_manage.sent

\* Further claims about the position manager

\* C25: a try_open_position call whose entry order was submitted without
\* error returns normally and leaves in_position true, the signal's
\* direction, a position_id, entry_price = peak = low = the bar's close,
\* qty = notional / price, base_notional = notional, added_levels = 0 and
\* the week's counter one higher.
C25_Step ==
    LET S == POSITION_STATE'
        wk == week_key(h_try'.bar)
    IN  (last_op' = "try_open_position" /\ ~POSITION_STATE.in_position
           /\ h_try'.sent /\ ~h_try'.send.raised) =>
           /\ ~h_try'.raised
           /\ S.in_position
           /\ S.direction \in {"long", "short"}
           /\ S.position_id # ""
           /\ S.entry_price > 0
           /\ S.peak_price = S.entry_price
           /\ S.low_price = S.entry_price
           /\ S.base_notional >= ctx.risk_config.min_notional_usd
           /\ S.qty = compute_qty(S.base_notional, S.entry_price)
           /\ S.added_levels = 0
           /\ C12_WeekCount(S, wk) = C12_WeekCount(POSITION_STATE, wk) + 1

C25_EntryRecorded == [][C25_Step]_vars

\* C28: a try_open_position call whose entry order failed leaves
\* PositionState as it was except for last_candle_time: in_position,
\* direction, qty, entry_price, position_id and the per-week trade counts
\* are unchanged.
C28_Step ==
    (last_op' = "try_open_position" /\ ~POSITION_STATE.in_position
       /\ h_try'.sent /\ h_try'.send.raised) =>
       /\ h_try'.raised
       /\ POSITION_STATE'.in_position = POSITION_STATE.in_position
       /\ POSITION_STATE'.direction = POSITION_STATE.direction
       /\ POSITION_STATE'.qty = POSITION_STATE.qty
       /\ POSITION_STATE'.entry_price = POSITION_STATE.entry_price
       /\ POSITION_STATE'.position_id = POSITION_STATE.position_id
       /\ \A w \in DOMAIN POSITION_STATE'.week_trade_counts :
             POSITION_STATE'.week_trade_counts[w]
                = C12_WeekCount(POSITION_STATE, w)

C28_FailedEntryLeavesState == [][C28_Step]_vars

\* C26: a manage_open_position tick on which an exit reason fires submits
\* one closing order for the full quantity, journals the exit and returns
\* with PositionState reset to not-in-position, keeping week_trade_counts
\* and last_candle_time, with last_exit_time set and cumulative_pnl raised
\* by (exit - entry) * qty * (+1 long / -1 short); no level is added.
C26_Step ==
    LET S == POSITION_STATE
        sign == IF S.direction = "long" THEN 1 ELSE 0 - 1
        pnl == (h_trail'.price - S.entry_price) * S.qty * sign
    IN  (h_trail'.ticks = h_trail.ticks + 1 /\ h_trail'.past_guard
           /\ h_trail'.reason # None) =>
           /\ h_manage'.sent
           /\ ~h_manage'.send.raised
           /\ ~h_manage'.raised
           /\ ~POSITION_STATE'.in_position
           /\ POSITION_STATE'.qty = 0
           /\ POSITION_STATE'.direction = ""
           /\ POSITION_STATE'.added_levels = 0
           /\ POSITION_STATE'.week_trade_counts = S.week_trade_counts
           /\ POSITION_STATE'.last_candle_time = S.last_candle_time
           /\ POSITION_STATE'.last_exit_time # ""
           /\ POSITION_STATE'.cumulative_pnl = S.cumulative_pnl + pnl

C26_ExitResetsState == [][C26_Step]_vars


(***************************************************************************)
(* Claims about the classification of order failures                       *)
(***************************************************************************)

\* the slippage guard of a live send_order call tripped (orders.py 79)
C27_GuardTripped ==
    /\ o_res # <<>>
    /\ o_in[1].qty > 0
    /\ ~o_in[1].dry_run
    /\ o_in[1].ticker.ok
    /\ bps_diff(live_price(o_in[1].ticker, o_in[1].expected_price),
                o_in[1].expected_price) > o_in[1].max_slippage_bps

\* C27: when the slippage guard trips in send_order, the reporter receives
\* order_reject with the reason SLIPPAGE_GUARD and the exception is raised
\* again to the caller.
C27_SlippageClassified ==
    C27_GuardTripped =>
        /\ o_res[1].raised
        /\ o_res[1].reporter = <<"order_submit", "order_reject">>
        /\ o_res[1].reject_reason = "SLIPPAGE_GUARD"


(***************************************************************************)
(* Claims about the exchange sync                                          *)
(***************************************************************************)

\* C29: a sync run that finds an open local row either returns having marked
\* the status ok, after upserting the row from the live position or closing
\* it on a confirmed closure, or raises ExchangeSyncError having first marked
\* mismatch (identity field missing, entry-order lookup failed) or missing
\* (no exchange position, closure not confirmed); it raises nothing else and
\* never raises without a status mark.
C29_SyncOutcomes ==
    (k_res # <<>> /\ k_in[1].row) =>
        LET i == k_in[1]
            r == k_res[1]
        IN  \/ /\ r.outcome = "returned"
               /\ r.marks = <<"ok">>
               /\ r.row_write \in {"upsert", "close"}
            \/ /\ r.outcome = "ExchangeSyncError"
               /\ r.marks = <<"mismatch">>
               /\ (i.fields # REQUIRED_FIELDS \/ ~i.lookup_ok)
            \/ /\ r.outcome = "ExchangeSyncError"
               /\ r.marks = <<"missing">>
               /\ ~i.live /\ ~i.confirmed_closed


(***************************************************************************)
(* Claims about the configuration clamps                                   *)
(***************************************************************************)

\* a float that is a number within [lo, hi] (hundredths)
C30_Within(x, lo, hi) == ~x.nan /\ lo <= x.v /\ x.v <= hi

\* C30: whatever the raw values (missing, negative, not numbers), the
\* bundles normalize_configs returns satisfy every clamp bound, and the
\* configuration in use still does after each hot-reload of the controls.
C30_ClampBounds ==
    (n_res # <<>>) =>
        LET c == n_res[1].cfg
        IN  /\ c.execution_config.poll_interval >= MIN_POLL_SECONDS
            /\ c.execution_config.lookback_bars <= MAX_LOOKBACK_BARS
            /\ c.execution_config.max_slippage_bps <= MAX_SLIPPAGE_BPS
            /\ C30_Within(c.risk_config.leverage, 100, MAX_LEVERAGE * 100)
            /\ C30_Within(c.risk_config.allocation_frac, 5, MAX_ALLOCATION_FRAC)
            /\ c.risk_config.max_trades_per_week <= MAX_TRADES_PER_WEEK
            /\ ~c.risk_config.min_notional_usd.nan
            /\ c.risk_config.min_notional_usd.v >= MIN_NOTIONAL_USD * 100
            /\ c.strategy_config.max_pyramid_levels <= MAX_PYRAMID_LEVELS


(***************************************************************************)
(* Claims about bootstrap                                                  *)
(***************************************************************************)

\* the place of a step among the calls start() has completed, 0 if it has not
C31_At(step) ==
    IF \E k \in 1..Len(boot.done) : boot.done[k] = step
    THEN CHOOSE k \in 1..Len(boot.done) : boot.done[k] = step
    ELSE 0

\* C31: run_loop is entered only after the context was loaded, the reporter
\* and its flush loop were started, the startup sync completed, the startup
\* gate passed (subscription active, no admin override, kill switch off,
\* trading enabled) and the connectivity probe succeeded, in this order; a
\* start that was blocked or failed never calls run_loop; and a failed
\* probe leaves auth_fail with the classified reason on the reporter.
C31_BootOrder ==
    /\ (boot.outcome = "running") =>
          /\ 0 < C31_At("load_context")
          /\ C31_At("load_context") < C31_At("init_reporter")
          /\ C31_At("init_reporter") < C31_At("start_health_flush_loop")
          /\ C31_At("start_health_flush_loop") < C31_At("startup_sync")
          /\ C31_At("startup_sync") < C31_At("startup_gate")
          /\ C31_At("startup_gate") < C31_At("assert_connectivity")
          /\ C31_At("assert_connectivity") < C31_At("run_loop")
          /\ b_ctx.subscription_status = "active"
          /\ ~b_ctx.admin_override /\ ~b_ctx.kill_switch
          /\ b_ctx.trading_enabled
    /\ (boot.outcome \in {"blocked", "failed"}) => C31_At("run_loop") = 0
    /\ (C31_At("run_loop") > 0) => boot.outcome = "running"
    /\ (boot.outcome = "failed" /\ boot.failed_at = "assert_connectivity") =>
          /\ boot.auth_ok = FALSE
          /\ boot.auth_code \in {REASON_PATTERNS[k][2] :
                                    k \in 1..Len(REASON_PATTERNS)}
                                \cup {"UNKNOWN_ERROR"}
          /\ boot.auth_code = map_exception_to_reason(boot.text)

C31_Witness ==
    /\ boot.outcome = "running"
    /\ Len(boot.done) = Len(BootSteps)
    /\ boot.auth_ok = TRUE


(***************************************************************************)
(* Claims about the control refresh cadence                                *)
(***************************************************************************)

\* C32: a counted tick attempts a control refresh iff CONTROL_REFRESH_SECONDS
\* have passed or CONTROL_REFRESH_POLLS ticks have been counted since the
\* last attempt (before the first attempt: since clock zero and since the
\* loop began); a tick that is not counted attempts none; there are never
\* more than CONTROL_REFRESH_POLLS counted ticks in a row without an
\* attempt; every attempt, failed or not, resets the timer and the counter;
\* and a failed attempt leaves the controls as they were.
C32_RefreshCadence ==
    (h_rf.op = "tick") =>
        /\ h_rf.attempted <=>
              /\ h_rf.counted
              /\ \/ h_rf.t_at >= CONTROL_REFRESH_SECONDS
                 \/ h_rf.n_at >= CONTROL_REFRESH_POLLS
        /\ h_rf.n_since <= CONTROL_REFRESH_POLLS
        /\ h_rf.attempted => (rf.since = 0 /\ rf.polls = 0)
        /\ (h_rf.attempted /\ h_rf.failed) =>
              rf.controls = h_rf.controls_before[1]

\* a failed attempt made for the tick count alone, after controls had changed
C32_Witness ==
    /\ h_rf.op = "tick"
    /\ h_rf.attempted /\ h_rf.failed
    /\ h_rf.n_at = CONTROL_REFRESH_POLLS
    /\ h_rf.t_at < CONTROL_REFRESH_SECONDS
    /\ rf.controls.kill_switch


(***************************************************************************)
(* Claims about the exchange sync cadence                                  *)
(***************************************************************************)

\* max(300, min(2 * timeframe_seconds, 600))
C33_Interval ==
    Max(300, Min(2 * timeframe_to_seconds(sy.timeframe), 600))

\* C33: maybe_sync runs the sync on its first call, and two runs it starts
\* are at least max(300, min(2 * timeframe_seconds, 600)) seconds apart,
\* also when the earlier run raised.
C33_SyncCadence ==
    /\ (h_sy.calls >= 1) => h_sy.runs >= 1
    /\ (h_sy.runs >= 2) => h_sy.gap >= C33_Interval


(***************************************************************************)
(* Claims about the scheduled flush                                        *)
(***************************************************************************)

\* a _claim_flush call by thread t takes the due schedule up and is accepted
C34_TakesUp(t) ==
    /\ pc[t] \in {"idle", "flush_now"}
    /\ pc'[t] = "rpc"
    /\ scheduled_flush_ts # 0
    /\ now >= scheduled_flush_ts

C34_Step ==
    /\ (scheduled_flush_ts' # 0) => scheduled_reason' = h_decl'.last
    /\ (scheduled_flush_ts # 0 /\ scheduled_flush_ts' # 0)
          => scheduled_flush_ts' >= scheduled_flush_ts
    /\ \A t \in Threads :
          C34_TakesUp(t) =>
              /\ tok'[t].reason = h_decl.last
              /\ scheduled_flush_ts' = 0
              /\ scheduled_reason' = None

\* C34: while a schedule stands, its reason is the reason of the latest
\* flush_now call that was declined and scheduled, and its time never moves
\* back; the flush that takes the due schedule up reports that reason, and
\* no schedule remains after it.
C34_LastReasonWins == [][C34_Step]_vars

\* a flush_now call in its RPC that took up a schedule two declined calls
\* stood behind, with a reason that is not its own
C34_Witness ==
    /\ pc["main"] = "rpc"
    /\ h_decl.taken_n = 2
    /\ h_decl.n = 0
    /\ h_decl.own = "db_error"
    /\ tok["main"].reason = "loop_error"

\* C37: a key leaves pending_patch only in the completion of a flush whose
\* sent patch contained it; a key recorded after the snapshot of a flush is
\* still pending when that flush has succeeded
C37_Step ==
    \A k \in DOMAIN pending_patch :
        k \notin DOMAIN pending_patch'
           => \E t \in Threads :
                 /\ pc[t] = "rpc" /\ pc'[t] = "idle"
                 /\ k \in DOMAIN tok[t].patch

C37_OnlySentKeysCleared == [][C37_Step]_vars

\* C38: on a tick dispatched in IDLE while a pause reason holds or trading is
\* disabled, try_open_position is not called and the only order handed to
\* the exchange, if any, is an exit order: no entry and no pyramiding add-on
ExitOutcomes == {"exited", "exit_order_failed", "exit_journal_error"}

C38_PausedDispatch ==
    /\ loop_pc = "dispatch"
    /\ loop_state = "IDLE"
    /\ must_idle(controls)
    /\ loop_pc' = "top"

C38_Step ==
    C38_PausedDispatch
       => /\ h_tick'.called # "try_open_position"
          /\ (h_tick'.called = "manage_open_position" /\ h_manage'.create_called)
                => h_manage'.outcome \in ExitOutcomes

C38_NoExposureWhilePaused == [][C38_Step]_vars
====
